---- MODULE Spec2Model ----
(***************************************************************************)
(* Change detection, template registry and batch deployment of the Bicep   *)
(* deployment script (src/deployScript).                                   *)
(*                                                                         *)
(* Persisted records are Python dicts: they are modelled as functions with *)
(* a string domain, so that the presence of a key can be told from its     *)
(* value.  An Optional value is <<>> (None) or <<v>>.                       *)
(***************************************************************************)
EXTENDS Integers, Sequences, FiniteSets, TLC

VARIABLES
    file_order,   \* settings.file_order of .deployment-settings.json
    disk,         \* the *.bicep files of the working directory
    now,          \* the wall clock, in ticks
    last,         \* the registry call that ran last: arguments and result
    steps,        \* number of calls made so far
    det,          \* one application of the change detector: inputs, result
    frame,        \* the frame of deploy_all_templates: locals, position, result
    calls,        \* the calls made to the external tool, oldest first
    skip_unchanged_global,  \* DeploymentManager.skip_unchanged_global
    faults,       \* what can go wrong around a deploy: the settings file
                  \* cannot be written, a template file has been removed
    settings_file,  \* the content of .deployment-settings.json as text
    loaded,       \* what load_deployment_settings did when called last
    spinner       \* show_progress_spinner: the caller and its worker thread

batch == <<frame, calls, skip_unchanged_global>>

side == <<faults, settings_file, loaded, spinner>>

vars == <<file_order, disk, now, last, steps, det, frame, calls, skip_unchanged_global,
          faults, settings_file, loaded, spinner>>

----------------------------------------------------------------------------
(* Bounds of the model. *)

\* the clock runs from 0 to MaxTime ticks
MaxTime == 2
\* ticks in one second: file times are finer than the stored timestamps
TicksPerSecond == 2
\* number of distinct non-empty file contents
MaxContent == 2
\* number of registry calls and file changes in one behaviour
MaxSteps == 2
\* number of choices made at the main menu in one behaviour
MaxChoices == 2
\* number of times the spinner is drawn during one call
MaxSpins == 2

----------------------------------------------------------------------------
(* Names.  Path.name is the full file name, Path.stem drops the last       *)
(* suffix.  No file of the working directory is named like the stem of     *)
(* another one.                                                            *)

AllFiles == {"a.bicep", "b.bicep", "c.bicep"}

Stem(name) ==
    CASE name = "a.bicep" -> "a"
      [] name = "b.bicep" -> "b"
      [] name = "c.bicep" -> "c"
      [] OTHER -> name

\* the order of Python's string comparison on the names used here
NameRank(name) ==
    CASE name = "a" -> 1
      [] name = "a.bicep" -> 2
      [] name = "b" -> 3
      [] name = "b.bicep" -> 4
      [] name = "c" -> 5
      [] OTHER -> 6

----------------------------------------------------------------------------
(* Python dicts and Optional values. *)

None == <<>>
Some(v) == <<v>>

HasKey(r, k) == k \in DOMAIN r
\* dict.get(k): None when the key is absent
Get(r, k) == IF k \in DOMAIN r THEN Some(r[k]) ELSE None
Put(r, k, v) == [x \in DOMAIN r \cup {k} |-> IF x = k THEN v ELSE r[x]]
Del(r, k) == [x \in DOMAIN r \ {k} |-> r[x]]

SetMin(S) == CHOOSE x \in S : \A y \in S : x <= y
SetMax(S) == CHOOSE x \in S : \A y \in S : x >= y
Range(s) == {s[i] : i \in 1..Len(s)}

\* {'FileName': name, 'Enabled': enabled}
BareEntry(name, enabled) == [FileName |-> name, Enabled |-> enabled]

----------------------------------------------------------------------------
(* Time and hashing. *)

\* datetime.now().strftime("%Y-%m-%d %H:%M:%S"): second precision
Strftime(t) == t \div TicksPerSecond
\* datetime.strptime(s, "%Y-%m-%d %H:%M:%S"): the start of that second
Strptime(s) == s * TicksPerSecond
\* a stored timestamp that strptime rejects
Unparsable == -1

\* the null hash of an unreadable file
NoHash == 0
\* hashlib.sha256(content).hexdigest(): injective, never null
Sha256(content) == content + 1

\* _get_current_file_hash
GetCurrentFileHash(d, f) ==
    IF d[f].readable THEN Sha256(d[f].content) ELSE NoHash

\* Path.stat().st_size: content 0 is the zero-byte file
StatSize(d, f) == d[f].content

----------------------------------------------------------------------------
(* Change detector. *)

HistoryKeys ==
    {"LastDeployment", "LastValidation", "LastDeploymentSuccess", "LastValidationSuccess"}

HasHistory(e) == DOMAIN e \cap HistoryKeys # {}

\* the detector with the timestamp comparison tried before the hashes
DetermineTimestampFirst(file_settings, current_hash, mtime, stat_ok) ==
    IF file_settings = <<>> THEN TRUE
    ELSE IF Get(file_settings, "LastDeploymentSuccess") = Some(FALSE) THEN TRUE
    ELSE IF Get(file_settings, "LastDeploymentSuccess") = None THEN FALSE
    ELSE IF HasKey(file_settings, "LastDeployment")
         THEN IF file_settings.LastDeployment = Unparsable \/ ~stat_ok
              THEN TRUE
              ELSE mtime > Strptime(file_settings.LastDeployment)
    ELSE IF current_hash # NoHash
            /\ HasKey(file_settings, "LastFileHash")
            /\ file_settings.LastFileHash # NoHash
         THEN current_hash # file_settings.LastFileHash
    ELSE TRUE

\* the detector with the failed outcome tested by truth value after the
\* hashes, so that equal hashes hide a failed deployment
DetermineHashBeforeFailure(file_settings, current_hash, mtime, stat_ok) ==
    IF file_settings = <<>> THEN TRUE
    ELSE IF Get(file_settings, "LastDeploymentSuccess") = None THEN FALSE
    ELSE IF current_hash # NoHash
            /\ HasKey(file_settings, "LastFileHash")
            /\ file_settings.LastFileHash # NoHash
         THEN current_hash # file_settings.LastFileHash
    ELSE IF Get(file_settings, "LastDeploymentSuccess") = Some(FALSE) THEN TRUE
    ELSE IF HasKey(file_settings, "LastDeployment")
         THEN IF file_settings.LastDeployment = Unparsable \/ ~stat_ok
              THEN TRUE
              ELSE mtime > Strptime(file_settings.LastDeployment)
    ELSE TRUE

\* the detector treating a missing record like a record without outcome
DetermineNoRecordUnchanged(file_settings, current_hash, mtime, stat_ok) ==
    IF Get(file_settings, "LastDeploymentSuccess") = Some(FALSE) THEN TRUE
    ELSE IF Get(file_settings, "LastDeploymentSuccess") = None THEN FALSE
    ELSE IF current_hash # NoHash
            /\ HasKey(file_settings, "LastFileHash")
            /\ file_settings.LastFileHash # NoHash
         THEN current_hash # file_settings.LastFileHash
    ELSE IF HasKey(file_settings, "LastDeployment")
         THEN IF file_settings.LastDeployment = Unparsable \/ ~stat_ok
              THEN TRUE
              ELSE mtime > Strptime(file_settings.LastDeployment)
    ELSE TRUE

\* the detector counting a file as modified when its time is the stored one
DetermineNotStrictlyAfter(file_settings, current_hash, mtime, stat_ok) ==
    IF file_settings = <<>> THEN TRUE
    ELSE IF Get(file_settings, "LastDeploymentSuccess") = Some(FALSE) THEN TRUE
    ELSE IF Get(file_settings, "LastDeploymentSuccess") = None THEN FALSE
    ELSE IF current_hash # NoHash
            /\ HasKey(file_settings, "LastFileHash")
            /\ file_settings.LastFileHash # NoHash
         THEN current_hash # file_settings.LastFileHash
    ELSE IF HasKey(file_settings, "LastDeployment")
         THEN IF file_settings.LastDeployment = Unparsable \/ ~stat_ok
              THEN TRUE
              ELSE mtime >= Strptime(file_settings.LastDeployment)
    ELSE TRUE

\* _determine_deployment_status(template_file, file_settings)[0];
\* file_settings is <<>> when there is none, stat_ok is FALSE when
\* template_file.stat() raises OSError
DetermineDeploymentStatus(file_settings, current_hash, mtime, stat_ok) ==
    IF file_settings = <<>> THEN TRUE
    ELSE IF Get(file_settings, "LastDeploymentSuccess") = Some(FALSE) THEN TRUE
    ELSE IF Get(file_settings, "LastDeploymentSuccess") = None THEN FALSE
    ELSE IF current_hash # NoHash
            /\ HasKey(file_settings, "LastFileHash")
            /\ file_settings.LastFileHash # NoHash
         THEN current_hash # file_settings.LastFileHash
    ELSE IF HasKey(file_settings, "LastDeployment")
         THEN IF file_settings.LastDeployment = Unparsable \/ ~stat_ok
              THEN TRUE
              ELSE mtime > Strptime(file_settings.LastDeployment)
    ELSE TRUE

----------------------------------------------------------------------------
(* Record lookup. *)

\* indices of the entries whose FileName is the file's name or its stem
Matches(fo, f) ==
    {i \in 1..Len(fo) : fo[i].FileName \in {f, Stem(f)}}

\* a lookup that takes the last matching entry, with or without history
FindEntryLastMatch(fo, f) ==
    IF Matches(fo, f) # {} THEN SetMax(Matches(fo, f)) ELSE 0

\* The lookup loop of get_bicep_files, update_deployment_history,
\* update_validation_history and set_template_enabled: the first matching
\* entry that has history, else the last matching entry; 0 when none matches.
FindEntry(fo, f) ==
    LET m == Matches(fo, f)
        h == {i \in m : HasHistory(fo[i])}
    IN  IF h # {} THEN SetMin(h)
        ELSE IF m # {} THEN SetMax(m)
        ELSE 0

\* next(f for f in settings.file_order if f.get('FileName') in [name, stem]):
\* the first matching entry; 0 when none matches
FirstMatch(fo, f) ==
    LET m == Matches(fo, f)
    IN  IF m # {} THEN SetMin(m) ELSE 0

\* the resolved file_settings of get_bicep_files, <<>> when there is none
FileSettings(fo, f) ==
    IF FindEntry(fo, f) = 0 THEN <<>> ELSE fo[FindEntry(fo, f)]

----------------------------------------------------------------------------
(* Discovery. *)

\* one BicepTemplate of get_bicep_files
Template(fo, d, f) ==
    LET fs == FileSettings(fo, f)
    IN  [name |-> f,
         size |-> StatSize(d, f),
         enabled |-> IF StatSize(d, f) = 0 THEN FALSE
                     ELSE IF fs # <<>> /\ HasKey(fs, "Enabled") THEN fs.Enabled
                     ELSE TRUE,
         last_deployment_success |->
             IF fs # <<>> THEN Get(fs, "LastDeploymentSuccess") ELSE None,
         last_deployment_error |->
             IF fs # <<>> THEN Get(fs, "LastDeploymentError") ELSE None,
         needs_redeployment |->
             DetermineDeploymentStatus(fs, GetCurrentFileHash(d, f), d[f].mtime, TRUE),
         last_file_hash |-> GetCurrentFileHash(d, f),
         last_validation_success |->
             IF fs # <<>> THEN Get(fs, "LastValidationSuccess") ELSE None]

\* sort_key of get_bicep_files: (position in file_order, name), 0-based
\* position, len(file_order) when the file is not listed
SortKey(fo, f) ==
    <<IF FirstMatch(fo, f) = 0 THEN Len(fo) ELSE FirstMatch(fo, f) - 1, NameRank(f)>>

KeyLess(k1, k2) == k1[1] < k2[1] \/ (k1[1] = k2[1] /\ k1[2] < k2[2])

\* sorted(files, key=sort_key): the names of the discovered files in order
SortedFiles(fo, d) ==
    LET n == Cardinality(DOMAIN d)
    IN  CHOOSE s \in [1..n -> DOMAIN d] :
            /\ Range(s) = DOMAIN d
            /\ \A i \in 1..n, j \in 1..n :
                   i < j => KeyLess(SortKey(fo, s[i]), SortKey(fo, s[j]))

\* get_bicep_files
GetBicepFiles(fo, d) ==
    [i \in 1..Cardinality(DOMAIN d) |-> Template(fo, d, SortedFiles(fo, d)[i])]

\* test_template_modified: resolves the first matching entry
TestTemplateModified(fo, d, f) ==
    DetermineDeploymentStatus(
        IF FirstMatch(fo, f) = 0 THEN <<>> ELSE fo[FirstMatch(fo, f)],
        GetCurrentFileHash(d, f), d[f].mtime, TRUE)

\* MenuSystem._get_deployment_status_indicator
DeploymentStatusIndicator(t) ==
    IF t.size = 0 THEN "empty"
    ELSE IF t.last_deployment_success = None THEN "never deployed"
    ELSE IF t.last_deployment_success = Some(FALSE) THEN "failed"
    ELSE IF t.needs_redeployment THEN "changed"
    ELSE "deployed"

----------------------------------------------------------------------------
(* Registry operations, as functions of the persisted order. *)

\* the entry the update methods write to, and the order that holds it:
\* the entry found, else a fresh one appended
Upsert(fo, f) ==
    IF FindEntry(fo, f) = 0
    THEN [fo |-> Append(fo, BareEntry(f, TRUE)), at |-> Len(fo) + 1]
    ELSE [fo |-> fo, at |-> FindEntry(fo, f)]

\* an update that keeps no error message
WithErrorDropped(e, key, error_message) == Del(e, key)

\* the error handling shared by the update methods: "if error_message"
\* holds for a string that is not empty
WithError(e, key, error_message) ==
    IF error_message # None /\ error_message # Some("") THEN Put(e, key, error_message[1])
    ELSE Del(e, key)

\* update_deployment_history(template_file, success, error_message) at time t
UpdateDeploymentHistory(fo, d, t, f, success, error_message) ==
    LET u == Upsert(fo, f)
        e == Put(Put(Put(u.fo[u.at],
                     "LastDeploymentSuccess", success),
                     "LastDeployment", Strftime(t)),
                     "LastFileHash", GetCurrentFileHash(d, f))
    IN  [u.fo EXCEPT ![u.at] = WithError(e, "LastDeploymentError", error_message)]

\* a validation written down as the outcome of a deployment
UpdateValidationAsDeployment(fo, t, f, success, error_message) ==
    LET u == Upsert(fo, f)
        e == Put(Put(u.fo[u.at],
                     "LastDeploymentSuccess", success),
                     "LastDeployment", Strftime(t))
    IN  [u.fo EXCEPT ![u.at] = WithError(e, "LastDeploymentError", error_message)]

\* a validation that also forgets the stored content hash
UpdateValidationClearingHash(fo, t, f, success, error_message) ==
    LET u == Upsert(fo, f)
        e == Put(Put(Put(u.fo[u.at],
                     "LastValidationSuccess", success),
                     "LastValidation", Strftime(t)),
                     "LastFileHash", NoHash)
    IN  [u.fo EXCEPT ![u.at] = WithError(e, "LastValidationError", error_message)]

\* update_validation_history(template_file, success, error_message) at time t
UpdateValidationHistory(fo, t, f, success, error_message) ==
    LET u == Upsert(fo, f)
        e == Put(Put(u.fo[u.at],
                     "LastValidationSuccess", success),
                     "LastValidation", Strftime(t))
    IN  [u.fo EXCEPT ![u.at] = WithError(e, "LastValidationError", error_message)]

\* set_template_enabled without the test for an empty file
SetTemplateEnabledNoSizeTest(fo, d, name, enabled) ==
    IF FindEntry(fo, name) = 0
    THEN [ret |-> TRUE, fo |-> Append(fo, BareEntry(name, enabled))]
    ELSE [ret |-> TRUE,
          fo |-> [fo EXCEPT ![FindEntry(fo, name)] = Put(@, "Enabled", enabled)]]

\* set_template_enabled(template_name, enabled): [ret, fo]
SetTemplateEnabled(fo, d, name, enabled) ==
    IF name \in DOMAIN d /\ StatSize(d, name) = 0 /\ enabled
    THEN [ret |-> FALSE, fo |-> fo]
    ELSE IF FindEntry(fo, name) = 0
    THEN [ret |-> TRUE, fo |-> Append(fo, BareEntry(name, enabled))]
    ELSE [ret |-> TRUE,
          fo |-> [fo EXCEPT ![FindEntry(fo, name)] = Put(@, "Enabled", enabled)]]

\* reorder_templates: the entry placed for one name of new_order
ReorderEntry(fo, filename) ==
    LET m == {j \in 1..Len(fo) : fo[j].FileName = filename}
    IN  IF m # {} THEN fo[SetMin(m)] ELSE BareEntry(filename, TRUE)

\* reorder_templates without the loop that keeps the unnamed entries
ReorderTemplatesNamedOnly(fo, new_order) ==
    [i \in 1..Len(new_order) |-> ReorderEntry(fo, new_order[i])]

\* reorder_templates(new_order)
ReorderTemplates(fo, new_order) ==
    LET Rest(e) == e.FileName \notin Range(new_order)
    IN  [i \in 1..Len(new_order) |-> ReorderEntry(fo, new_order[i])]
        \o SelectSeq(fo, Rest)

\* refresh_file_list: the entries appended for the newly discovered files
NewFiles(fo, d) ==
    LET Unlisted(f) == f \notin {fo[i].FileName : i \in 1..Len(fo)}
    IN  [i \in 1..Len(SelectSeq(SortedFiles(fo, d), Unlisted)) |->
            BareEntry(SelectSeq(SortedFiles(fo, d), Unlisted)[i], TRUE)]

\* refresh_file_list returning the number of entries it appends
RefreshFileListCountingNew(fo, d) ==
    [ret |-> Len(NewFiles(fo, d)), fo |-> fo \o NewFiles(fo, d)]

\* refresh_file_list(): [ret, fo]
RefreshFileList(fo, d) ==
    [ret |-> Len(GetBicepFiles(fo, d)), fo |-> fo \o NewFiles(fo, d)]

----------------------------------------------------------------------------
(* The registry: the calls of BicepManager on the persisted order, with    *)
(* the files of the working directory changing in between.                 *)

RegFiles == {"a.bicep", "b.bicep"}

\* r with key k set when the Optional o holds a value
Opt(r, k, o) == IF o = None THEN r ELSE Put(r, k, o[1])

\* what update_deployment_history leaves in an entry
Deployed(e, success, second, hash, error_message) ==
    Opt(Put(Put(Put(e, "LastDeploymentSuccess", success),
                       "LastDeployment", second),
                       "LastFileHash", hash),
        "LastDeploymentError", error_message)

\* Persisted orders the program starts from: nothing, entries written by
\* this program, and legacy entries named by the stem.
InitEntriesA ==
    { <<>>,
      <<BareEntry("a", TRUE)>>,
      <<Deployed(BareEntry("a", TRUE), TRUE, 0, Sha256(1), None)>>,
      <<Deployed(BareEntry("a.bicep", TRUE), TRUE, 0, Sha256(1), None)>>,
      <<Deployed(BareEntry("a.bicep", TRUE), FALSE, 0, Sha256(1), Some("boom"))>> }

InitEntriesB == { <<>>, <<BareEntry("b.bicep", TRUE)>> }

InitOrders == {a \o b : a \in InitEntriesA, b \in InitEntriesB}

InitDisks ==
    {[f \in RegFiles |-> [content |-> IF f = "a.bicep" THEN c ELSE 1,
                          mtime |-> 0, readable |-> TRUE]] : c \in 0..MaxContent}

NoCall ==
    [op |-> "none", f |-> "", success |-> FALSE, error_message |-> None,
     enabled |-> FALSE, new_order |-> <<>>, ret |-> FALSE, count |-> 0,
     before |-> <<>>]

\* no batch is running
NoBatch == [pc |-> "idle"]

NoDet ==
    [file_settings |-> <<>>, current_hash |-> NoHash, mtime |-> 0,
     stat_ok |-> TRUE, done |-> FALSE, result |-> FALSE]

\* nothing goes wrong around a deploy
NoFaults == {}

\* the settings file is not looked at as text, nothing has been loaded
NoSettingsFile == [kind |-> "none"]
NoLoad == [called |-> FALSE]

\* no spinner is running
NoSpinner == [pc |-> "idle"]

\* the parts of the state that only the specifications further down use
AtRest ==
    /\ faults = NoFaults
    /\ settings_file = NoSettingsFile
    /\ loaded = NoLoad
    /\ spinner = NoSpinner

Init ==
    /\ file_order \in InitOrders
    /\ disk \in InitDisks
    /\ now = 0
    /\ last = NoCall
    /\ steps = 0
    /\ det = NoDet
    /\ frame = NoBatch
    /\ calls = <<>>
    /\ skip_unchanged_global = "prompt"
    /\ AtRest

ErrorMessages == {None, Some("boom")}

\* new_order as the reorder menu and its callers build it: names of
\* template files, none twice
NewOrders ==
    {<<>>} \cup {<<f>> : f \in RegFiles}
           \cup {s \in [1..2 -> RegFiles] : s[1] # s[2]}

SetTemplateEnabledCall ==
    \E f \in DOMAIN disk, enabled \in BOOLEAN :
        /\ steps < MaxSteps
        /\ file_order' = SetTemplateEnabled(file_order, disk, f, enabled).fo
        /\ last' = [NoCall EXCEPT !.op = "set_template_enabled", !.before = file_order, !.f = f,
                        !.enabled = enabled,
                        !.ret = SetTemplateEnabled(file_order, disk, f, enabled).ret]
        /\ steps' = steps + 1
        /\ UNCHANGED <<disk, now, det, batch, side>>

UpdateDeploymentHistoryCall ==
    \E f \in DOMAIN disk, success \in BOOLEAN, error_message \in ErrorMessages :
        /\ steps < MaxSteps
        /\ file_order' =
               UpdateDeploymentHistory(file_order, disk, now, f, success, error_message)
        /\ last' = [NoCall EXCEPT !.op = "update_deployment_history", !.before = file_order, !.f = f,
                        !.success = success, !.error_message = error_message]
        /\ steps' = steps + 1
        /\ UNCHANGED <<disk, now, det, batch, side>>

UpdateValidationHistoryCall ==
    \E f \in DOMAIN disk, success \in BOOLEAN, error_message \in ErrorMessages :
        /\ steps < MaxSteps
        /\ file_order' =
               UpdateValidationHistory(file_order, now, f, success, error_message)
        /\ last' = [NoCall EXCEPT !.op = "update_validation_history", !.before = file_order, !.f = f,
                        !.success = success, !.error_message = error_message]
        /\ steps' = steps + 1
        /\ UNCHANGED <<disk, now, det, batch, side>>

ReorderTemplatesCall ==
    \E new_order \in NewOrders :
        /\ steps < MaxSteps
        /\ file_order' = ReorderTemplates(file_order, new_order)
        /\ last' = [NoCall EXCEPT !.op = "reorder_templates", !.before = file_order, !.new_order = new_order]
        /\ steps' = steps + 1
        /\ UNCHANGED <<disk, now, det, batch, side>>

RefreshFileListCall ==
    /\ steps < MaxSteps
    /\ file_order' = RefreshFileList(file_order, disk).fo
    /\ last' = [NoCall EXCEPT !.op = "refresh_file_list", !.before = file_order,
                    !.count = RefreshFileList(file_order, disk).ret]
    /\ steps' = steps + 1
    /\ UNCHANGED <<disk, now, det, batch, side>>

\* the operator edits a template file
WriteFile ==
    \E f \in DOMAIN disk, c \in 0..MaxContent :
        /\ steps < MaxSteps
        /\ disk' = [disk EXCEPT ![f].content = c, ![f].mtime = now]
        /\ last' = [NoCall EXCEPT !.op = "write_file", !.f = f]
        /\ steps' = steps + 1
        /\ UNCHANGED <<file_order, now, det, batch, side>>

\* a template file becomes unreadable, or readable again
Chmod ==
    \E f \in DOMAIN disk :
        /\ steps < MaxSteps
        /\ disk' = [disk EXCEPT ![f].readable = ~@]
        /\ last' = [NoCall EXCEPT !.op = "chmod", !.f = f]
        /\ steps' = steps + 1
        /\ UNCHANGED <<file_order, now, det, batch, side>>

Tick ==
    /\ steps < MaxSteps
    /\ now < MaxTime
    /\ now' = now + 1
    /\ last' = [NoCall EXCEPT !.op = "tick"]
    /\ steps' = steps + 1
    /\ UNCHANGED <<file_order, disk, det, batch, side>>

Next ==
    \/ SetTemplateEnabledCall
    \/ UpdateDeploymentHistoryCall
    \/ UpdateValidationHistoryCall
    \/ ReorderTemplatesCall
    \/ RefreshFileListCall
    \/ WriteFile
    \/ Chmod
    \/ Tick

Spec == Init /\ [][Next]_vars

----------------------------------------------------------------------------
(* The change detector applied to every combination of its inputs. *)

DetSettings ==
    {<<>>} \cup
    { Opt(Opt(Opt(BareEntry("a.bicep", TRUE),
                  "LastDeploymentSuccess", s), "LastFileHash", h), "LastDeployment", t) :
        s \in {None, Some(TRUE), Some(FALSE)},
        h \in {None, Some(NoHash)} \cup {Some(Sha256(c)) : c \in 1..MaxContent},
        t \in {None, Some(Unparsable)} \cup {Some(Strftime(x)) : x \in 0..MaxTime} }

DetInit ==
    /\ file_order = <<>>
    /\ disk = [f \in {} |-> 0]
    /\ now = 0
    /\ last = NoCall
    /\ steps = 0
    /\ frame = NoBatch
    /\ calls = <<>>
    /\ skip_unchanged_global = "prompt"
    /\ AtRest
    /\ det \in [file_settings : DetSettings,
                current_hash : {NoHash} \cup {Sha256(c) : c \in 1..MaxContent},
                mtime : 0..MaxTime,
                stat_ok : BOOLEAN,
                done : {FALSE},
                result : {FALSE}]

Determine ==
    /\ ~det.done
    /\ det' = [det EXCEPT !.done = TRUE,
                   !.result = DetermineDeploymentStatus(
                       det.file_settings, det.current_hash, det.mtime, det.stat_ok)]
    /\ UNCHANGED <<file_order, disk, now, last, steps, batch, side>>

DetNext == Determine

SpecDetector == DetInit /\ [][DetNext]_vars

----------------------------------------------------------------------------
(* The per-item deploy, DeploymentManager.deploy_bicep_template, as a      *)
(* function of the persisted order and of what the operator and the        *)
(* external tool answer.  An outcome of the tool is "ok", "fail" (a        *)
(* non-zero exit or a timeout) or "raise" (the call throws).               *)

Outcomes == {"ok", "fail", "raise"}

\* the answers confirm_deploy_unchanged accepts ("" counts as Y)
UnchangedAnswers == {"Y", "N", "A", "L"}

\* the four answers without a lasting effect
ConfirmOnceOnly(global, answer) ==
    IF global # "prompt" THEN [action |-> global, global |-> global]
    ELSE IF answer \in {"Y", "L"} THEN [action |-> "deploy", global |-> global]
    ELSE [action |-> "skip", global |-> global]

\* confirm_deploy_unchanged(template_name): [action, global]
ConfirmDeployUnchanged(global, answer) ==
    IF global # "prompt" THEN [action |-> global, global |-> global]
    ELSE IF answer = "Y" THEN [action |-> "deploy", global |-> global]
    ELSE IF answer = "N" THEN [action |-> "skip", global |-> global]
    ELSE IF answer = "A" THEN [action |-> "skip", global |-> "skip"]
    ELSE [action |-> "deploy", global |-> "deploy"]

\* should_validate taken from the validation mode alone
ShouldValidateIgnoringSkip(skip_validation, validation_mode, template_needs_redeployment) ==
    IF validation_mode = "All" THEN TRUE
    ELSE IF validation_mode = "Changed" THEN template_needs_redeployment
    ELSE FALSE

\* should_validate of deploy_bicep_template
ShouldValidate(skip_validation, validation_mode, template_needs_redeployment) ==
    IF skip_validation THEN FALSE
    ELSE IF validation_mode = "All" THEN TRUE
    ELSE IF validation_mode = "Changed" THEN template_needs_redeployment
    ELSE FALSE

ValidateCall(f) == [op |-> "validate", f |-> f, mode |-> "", phase |-> "item"]
DeployCall(f, mode) == [op |-> "deploy", f |-> f, mode |-> mode, phase |-> "item"]

\* the outcomes of a call that either works or throws
Raising == {"ok", "raise"}

\* template_file.stat() throws only when the file has been removed
StatOutcomes(fs) == IF "removed" \in fs THEN Raising ELSE {"ok"}

\* save_deployment_settings throws when the settings file cannot be written
SaveOutcome(fs) == IF "readonly" \in fs THEN "raise" ELSE "ok"

\* the directory after file f has been removed: nothing can be read from it
Removed(d, f) == [d EXCEPT ![f].readable = FALSE]

\* what the external tool says when a validation or a deployment fails, and
\* the text of an exception
ValidationMessage == "validation error"
DeployMessage == "deployment error"
ExceptionText == "tool error"

\* the failed validation written down without what the tool said
ValidationFailedBare(validation_message) == "Template validation failed"

\* the messages deploy_bicep_template stores
ValidationFailed(validation_message) == "Template validation failed: " \o validation_message
DeploymentFailed(deploy_message) == "Deployment failed: " \o deploy_message
UnexpectedError(text) == "Unexpected error during deployment: " \o text

\* the outcome of the validation of a per-item deploy that made the calls
\* cs, "" when it did not validate
ValidationOutcome(cs, validated) ==
    IF cs # <<>> /\ cs[1].op = "validate" THEN validated ELSE ""

\* deploy_bicep_template: [result, fo, calls, global, prompted], where calls
\* are the calls made to the external tool, global is skip_unchanged_global
\* and prompted tells whether the operator was asked about an unchanged
\* template.  stat and saved are the outcomes of template_file.stat() and of
\* save_deployment_settings; the result is "raised" when an exception leaves
\* the function, which happens when update_deployment_history throws inside
\* the except block.
DeployBicepTemplate(fo, d, t, global, f, mode, skip_unchanged, skip_validation, validation_mode, template_needs_redeployment, answer, validated, deployed, stat, saved) ==
    LET Stored(r) == IF saved = "ok" THEN r
                     ELSE [r EXCEPT !.result = "raised", !.fo = fo]
        Unexpected == Some(UnexpectedError(ExceptionText))
    IN
    IF stat = "raise"
    THEN Stored([result |-> "failure",
                 fo |-> UpdateDeploymentHistory(fo, Removed(d, f), t, f, FALSE, Unexpected),
                 calls |-> <<>>, global |-> global, prompted |-> FALSE])
    ELSE IF StatSize(d, f) = 0
    THEN Stored([result |-> "failure",
                 fo |-> UpdateDeploymentHistory(fo, d, t, f, FALSE,
                            Some("Cannot deploy empty template file")),
                 calls |-> <<>>, global |-> global, prompted |-> FALSE])
    ELSE
    LET unchanged == ~TestTemplateModified(fo, d, f)
        prompted == unchanged /\ skip_unchanged = "prompt" /\ global = "prompt"
        confirm == IF unchanged /\ skip_unchanged = "prompt"
                   THEN ConfirmDeployUnchanged(global, answer)
                   ELSE [action |-> skip_unchanged, global |-> global]
        validate == ShouldValidate(skip_validation, validation_mode,
                                   template_needs_redeployment)
        before == IF validate THEN <<ValidateCall(f)>> ELSE <<>>
    IN  IF unchanged /\ confirm.action = "skip"
        THEN [result |-> "skipped", fo |-> fo, calls |-> <<>>,
              global |-> confirm.global, prompted |-> prompted]
        ELSE IF validate /\ validated # "ok"
        THEN Stored([result |-> "failure",
                     fo |-> UpdateDeploymentHistory(fo, d, t, f, FALSE,
                                IF validated = "fail"
                                THEN Some(ValidationFailed(ValidationMessage))
                                ELSE Unexpected),
                     calls |-> before, global |-> confirm.global,
                     prompted |-> prompted])
        ELSE IF deployed = "ok"
        THEN Stored([result |-> "success",
                     fo |-> UpdateDeploymentHistory(fo, d, t, f, TRUE, None),
                     calls |-> before \o <<DeployCall(f, mode)>>,
                     global |-> confirm.global, prompted |-> prompted])
        ELSE Stored([result |-> "failure",
                     fo |-> UpdateDeploymentHistory(fo, d, t, f, FALSE,
                                IF deployed = "fail"
                                THEN Some(DeploymentFailed(DeployMessage))
                                ELSE Unexpected),
                     calls |-> before \o <<DeployCall(f, mode)>>,
                     global |-> confirm.global, prompted |-> prompted])

----------------------------------------------------------------------------
(* The batch, DeploymentManager.deploy_all_templates, called from the main *)
(* menu with the templates discovered at the top of the menu loop.  Each   *)
(* prompt and each call of the external tool is one step.                  *)

BatchFiles == AllFiles

\* the records a batch starts with: "a.bicep" deployed and unchanged,
\* failed or without record; "b.bicep" deployed and unchanged, deployed and
\* changed since, or failed; "c.bicep" deployed and unchanged, without
\* record or disabled
BatchOrders ==
    { x \o y \o z :
        x \in { <<Deployed(BareEntry("a.bicep", TRUE), TRUE, 0, Sha256(1), None)>>,
                <<Deployed(BareEntry("a.bicep", TRUE), FALSE, 0, Sha256(1), Some("boom"))>>,
                <<>> },
        y \in { <<Deployed(BareEntry("b.bicep", TRUE), TRUE, 0, Sha256(1), None)>>,
                <<Deployed(BareEntry("b.bicep", TRUE), TRUE, 0, Sha256(2), None)>>,
                <<Deployed(BareEntry("b.bicep", TRUE), FALSE, 0, Sha256(1), Some("boom"))>> },
        z \in { <<Deployed(BareEntry("c.bicep", TRUE), TRUE, 0, Sha256(1), None)>>,
                <<>>,
                <<BareEntry("c.bicep", FALSE)>> } }

ValidationModes == {"All", "Changed", "Skip"}

\* the main menu, before "A" is chosen
AtMenu(validation_mode) == [pc |-> "menu", validation_mode |-> validation_mode]

BatchInit ==
    /\ file_order \in BatchOrders
    /\ disk = [f \in BatchFiles |-> [content |-> 1, mtime |-> 0, readable |-> TRUE]]
    /\ now = 0
    /\ last = NoCall
    /\ steps = 0
    /\ det = NoDet
    /\ frame \in {AtMenu(m) : m \in ValidationModes}
    /\ calls = <<>>
    /\ skip_unchanged_global = "prompt"
    /\ AtRest

IsEnabled(t) == t.enabled
IsEnabledNonEmpty(t) == t.enabled /\ t.size > 0
\* every template counted as changed
NeedsRedeploymentAlways(t) == TRUE

NeedsRedeployment(t) == t.needs_redeployment

\* the locals of deploy_all_templates at its first line, with the
\* bookkeeping the properties below read: the result of every per-item
\* deploy, the items declined, the state at a halt, the persisted order at
\* the start, what every per-item deploy did and what the operator answered
\* when asked about a prior failure
NewFrame(validation_mode, templates) ==
    [pc |-> "start",
     validation_mode |-> validation_mode,
     enabled_templates |-> SelectSeq(templates, IsEnabled),
     to_validate |-> <<>>,
     vi |-> 1,
     successful_validations |-> 0,
     failed_validations |-> 0,
     skip_individual_validation |-> FALSE,
     mode |-> None,
     i |-> 1,
     successful_deployments |-> 0,
     failed_deployments |-> 0,
     ret |-> None,
     results |-> <<>>,
     declined |-> {},
     complete_confirmed |-> FALSE,
     halted |-> 0,
     halt_calls |-> 0,
     halt_order |-> <<>>,
     start_order |-> <<>>,
     items |-> <<>>,
     validations |-> <<>>,
     confirmations |-> <<>>]

\* return 0, 0 / return successful_deployments, failed_deployments
Return(fr, s, f) == [fr EXCEPT !.pc = "done", !.ret = Some(<<s, f>>)]

\* the names of the templates validate_all_templates is called with and
\* keeps: those enabled and not empty
ToValidate(templates) ==
    [k \in 1..Len(SelectSeq(templates, IsEnabledNonEmpty)) |->
        SelectSeq(templates, IsEnabledNonEmpty)[k].name]

\* the validation step of deploy_all_templates up to its first call
AfterStart(fr, templates) ==
    IF fr.enabled_templates = <<>> THEN Return(fr, 0, 0)
    ELSE IF fr.validation_mode = "All"
    THEN [fr EXCEPT !.pc = "validating", !.to_validate = ToValidate(templates)]
    ELSE IF fr.validation_mode = "Changed"
    THEN IF SelectSeq(fr.enabled_templates, NeedsRedeployment) # <<>>
         THEN [fr EXCEPT !.pc = "validating",
                         !.to_validate =
                             ToValidate(SelectSeq(fr.enabled_templates, NeedsRedeployment))]
         ELSE [fr EXCEPT !.pc = "mode_prompt", !.skip_individual_validation = FALSE]
    ELSE [fr EXCEPT !.pc = "mode_prompt", !.skip_individual_validation = TRUE]

\* main.py: "A" at the menu: get_bicep_files, then deploy_all_templates
DeployAllTemplates ==
    /\ frame.pc = "menu"
    /\ frame' = AfterStart([NewFrame(frame.validation_mode,
                                     GetBicepFiles(file_order, disk))
                                EXCEPT !.start_order = file_order],
                           GetBicepFiles(file_order, disk))
    /\ UNCHANGED <<file_order, disk, now, last, steps, det, calls, skip_unchanged_global, side>>

\* validate_all_templates: the frame after the loop has ended
AfterValidation(fr) ==
    IF fr.failed_validations > 0
    THEN [fr EXCEPT !.pc = "validation_prompt"]
    ELSE [fr EXCEPT !.pc = "mode_prompt", !.skip_individual_validation = TRUE]

\* validate_all_templates: one round of its loop
ValidateTemplate ==
    /\ frame.pc = "validating"
    /\ frame.vi <= Len(frame.to_validate)
    /\ \E validated \in Outcomes :
        LET f == frame.to_validate[frame.vi]
            fr == [frame EXCEPT
                      !.vi = @ + 1,
                      !.validations = Append(@, [f |-> f, is_valid |-> validated = "ok"]),
                      !.successful_validations = IF validated = "ok" THEN @ + 1 ELSE @,
                      !.failed_validations = IF validated = "ok" THEN @ ELSE @ + 1]
        IN  /\ calls' = Append(calls, [op |-> "validate", f |-> f, mode |-> "",
                                       phase |-> "bulk"])
            /\ file_order' =
                   IF SaveOutcome(faults) = "raise" THEN file_order
                   ELSE UpdateValidationHistory(file_order, now, f, validated = "ok",
                            IF validated = "ok" THEN None ELSE Some(ValidationMessage))
            /\ frame' = IF SaveOutcome(faults) = "raise" THEN [frame EXCEPT !.pc = "raised"]
                        ELSE IF fr.vi > Len(fr.to_validate) THEN AfterValidation(fr)
                        ELSE fr
    /\ UNCHANGED <<disk, now, last, steps, det, skip_unchanged_global, side>>

\* "Continue with deployment anyway? [y/N]"
ValidationPrompt ==
    /\ frame.pc = "validation_prompt"
    /\ \E answer \in {"Y", "N", ""} :
        frame' = IF answer # "Y" THEN Return(frame, 0, 0)
                 ELSE [frame EXCEPT !.pc = "mode_prompt",
                                    !.skip_individual_validation = TRUE]
    /\ UNCHANGED <<file_order, disk, now, last, steps, det, calls, skip_unchanged_global, side>>

\* get_deployment_mode: what one round of its loop returns, "again" when
\* the loop goes round
DeploymentModeChoice(choice, confirm) ==
    IF choice \in {"", "I"} THEN "Incremental"
    ELSE IF choice = "C" THEN (IF confirm = "Y" THEN "Complete" ELSE "again")
    ELSE IF choice = "Q" THEN "quit"
    ELSE "again"

\* get_deployment_mode and the lines of deploy_all_templates up to its loop
GetDeploymentMode ==
    /\ frame.pc = "mode_prompt"
    /\ \E choice \in {"", "I", "C", "Q", "X"}, confirm \in {"Y", "N", ""} :
        LET m == DeploymentModeChoice(choice, confirm)
        IN  /\ frame' =
                   IF m = "again" THEN frame
                   ELSE IF m = "quit" THEN Return(frame, 0, 0)
                   ELSE [frame EXCEPT !.pc = "item", !.mode = Some(m),
                                      !.complete_confirmed = (choice = "C" /\ confirm = "Y")]
            /\ skip_unchanged_global' =
                   IF m \in {"again", "quit"} THEN skip_unchanged_global ELSE "prompt"
    /\ UNCHANGED <<file_order, disk, now, last, steps, det, calls, side>>

\* the test before the prior-failure prompt
PriorFailure(t) ==
    t.last_deployment_error # None /\ t.last_deployment_success # Some(TRUE)

\* "Do you want to continue with deployment? [Y]es / [N]o"
PriorFailurePrompt ==
    /\ frame.pc = "item"
    /\ frame.i <= Len(frame.enabled_templates)
    /\ PriorFailure(frame.enabled_templates[frame.i])
    /\ \E answer \in {"Y", "N", ""} :
        frame' = IF answer = "N"
                 THEN [frame EXCEPT !.i = @ + 1, !.declined = @ \cup {frame.i},
                          !.confirmations = Append(@, [i |-> frame.i, answer |-> answer])]
                 ELSE [frame EXCEPT !.pc = "deploy",
                          !.confirmations = Append(@, [i |-> frame.i, answer |-> answer])]
    /\ UNCHANGED <<file_order, disk, now, last, steps, det, calls, skip_unchanged_global, side>>

\* the chosen mode passed on for every item
TemplateModeForAll(mode, i) == mode

\* template_mode = mode if i == 1 else "Incremental"
TemplateMode(mode, i) == IF i = 1 THEN mode ELSE "Incremental"

\* the tally with "skipped" falling into the else branch
TallySkippedAsFailure(fr, result) ==
    IF result = "success" THEN <<fr.successful_deployments + 1, fr.failed_deployments>>
    ELSE <<fr.successful_deployments, fr.failed_deployments + 1>>

\* the tally of one result: [successful, failed]
Tally(fr, result) ==
    IF result = "success" THEN <<fr.successful_deployments + 1, fr.failed_deployments>>
    ELSE IF result = "skipped" THEN <<fr.successful_deployments + 1, fr.failed_deployments>>
    ELSE <<fr.successful_deployments, fr.failed_deployments + 1>>

\* What the operator and the tool can answer during one per-item deploy:
\* the operator is asked only about an unchanged template while the sticky
\* choice is "prompt", and the tool validates only when should_validate.
Asked(fo, d, global, f) ==
    IF ~TestTemplateModified(fo, d, f) /\ global = "prompt"
    THEN UnchangedAnswers ELSE {"Y"}

Validated(skip_validation, validation_mode, template_needs_redeployment) ==
    IF ShouldValidate(skip_validation, validation_mode, template_needs_redeployment)
    THEN Outcomes ELSE {"ok"}

\* the call of deploy_bicep_template for item i and the tally of its result
DeployTemplate ==
    /\ \/ frame.pc = "deploy"
       \/ /\ frame.pc = "item"
          /\ frame.i <= Len(frame.enabled_templates)
          /\ ~PriorFailure(frame.enabled_templates[frame.i])
    /\ \E answer \in Asked(file_order, disk, skip_unchanged_global,
                           frame.enabled_templates[frame.i].name),
          validated \in Validated(frame.skip_individual_validation,
                                  frame.validation_mode,
                                  frame.enabled_templates[frame.i].needs_redeployment),
          deployed \in Outcomes,
          stat \in StatOutcomes(faults) :
        LET t == frame.enabled_templates[frame.i]
            r == DeployBicepTemplate(file_order, disk, now, skip_unchanged_global,
                     t.name, TemplateMode(frame.mode[1], frame.i),
                     skip_unchanged_global,
                     frame.skip_individual_validation, frame.validation_mode,
                     t.needs_redeployment, answer, validated, deployed,
                     stat, SaveOutcome(faults))
            item == [i |-> frame.i,
                     unchanged |-> stat = "ok" /\ ~TestTemplateModified(file_order, disk, t.name),
                     prompted |-> r.prompted,
                     answer |-> IF r.prompted THEN answer ELSE "",
                     result |-> r.result,
                     calls |-> r.calls,
                     kept |-> r.fo = file_order]
            fr == [frame EXCEPT
                      !.successful_deployments = Tally(frame, r.result)[1],
                      !.failed_deployments = Tally(frame, r.result)[2],
                      !.results = Append(@, [i |-> frame.i, result |-> r.result]),
                      !.items = Append(@, item)]
        IN  /\ file_order' = r.fo
            /\ calls' = calls \o r.calls
            /\ skip_unchanged_global' = r.global
            /\ frame' = IF r.result = "raised"
                        THEN [frame EXCEPT !.pc = "raised", !.items = Append(@, item)]
                        ELSE IF r.result \in {"success", "skipped"}
                        THEN [fr EXCEPT !.pc = "item", !.i = @ + 1]
                        ELSE [fr EXCEPT !.pc = "continue_prompt"]
    /\ UNCHANGED <<disk, now, last, steps, det, side>>

\* the batch going on whatever the answer
BreakNever(answer) == FALSE

\* if continue_choice == "N": break
Break(answer) == answer = "N"

\* "Continue with remaining templates? [Y]es / [N]o"
ContinuePrompt ==
    /\ frame.pc = "continue_prompt"
    /\ \E answer \in {"Y", "N", ""} :
        frame' = IF Break(answer)
                 THEN Return([frame EXCEPT !.halted = frame.i,
                                           !.halt_calls = Len(calls),
                                           !.halt_order = file_order],
                             frame.successful_deployments, frame.failed_deployments)
                 ELSE [frame EXCEPT !.pc = "item", !.i = @ + 1,
                          !.halted = IF answer = "N" THEN frame.i ELSE @,
                          !.halt_calls = IF answer = "N" THEN Len(calls) ELSE @,
                          !.halt_order = IF answer = "N" THEN file_order ELSE @]
    /\ UNCHANGED <<file_order, disk, now, last, steps, det, calls, skip_unchanged_global, side>>

\* the loop has run out of items: the summary and the return
FinishBatch ==
    /\ frame.pc = "item"
    /\ frame.i > Len(frame.enabled_templates)
    /\ frame' = Return(frame, frame.successful_deployments, frame.failed_deployments)
    /\ UNCHANGED <<file_order, disk, now, last, steps, det, calls, skip_unchanged_global, side>>

----------------------------------------------------------------------------
(* The interactive loop, DeployScript.run: a choice at the main menu runs  *)
(* its handler; an exception of a handler ends in the except clauses of    *)
(* the loop.  The log of calls starts anew with every choice.              *)

SessionFiles == {"a.bicep"}

\* the records a session starts with: "a.bicep" deployed and unchanged, or
\* deployed and changed since
SessionOrders ==
    { <<Deployed(BareEntry("a.bicep", TRUE), TRUE, 0, Sha256(1), None)>>,
      <<Deployed(BareEntry("a.bicep", TRUE), TRUE, 0, Sha256(2), None)>> }

\* what can go wrong in one session
SessionFaults == {{}, {"readonly"}, {"removed"}}

SessionInit ==
    /\ file_order \in SessionOrders
    /\ disk = [f \in SessionFiles |-> [content |-> 1, mtime |-> 0, readable |-> TRUE]]
    /\ now = 0
    /\ last = NoCall
    /\ steps = 0
    /\ det = NoDet
    /\ frame \in {AtMenu(m) : m \in ValidationModes}
    /\ calls = <<>>
    /\ skip_unchanged_global = "prompt"
    /\ faults \in SessionFaults
    /\ settings_file = NoSettingsFile
    /\ loaded = NoLoad
    /\ spinner = NoSpinner

\* the loop is at "Enter your choice": no handler is running
LoopTop == frame.pc \in {"menu", "handled", "done", "single"}

\* the loop after a handler that returned or threw
Handled(validation_mode, choice, outcome) ==
    [pc |-> "handled", validation_mode |-> validation_mode,
     choice |-> choice, outcome |-> outcome]

\* the loop after its break
Ended(validation_mode, why) ==
    [pc |-> "ended", validation_mode |-> validation_mode, why |-> why]

\* an exception that reaches the loop and is not a handled one ends it
CaughtNothing(exception) == FALSE

\* except KeyboardInterrupt: break / except Exception: log and go on
Caught(exception) == exception = "Exception"

\* the loop after a handler with the given outcome
AfterHandler(validation_mode, choice, outcome) ==
    IF outcome = "raise" /\ ~Caught("Exception")
    THEN Ended(validation_mode, "exception")
    ELSE Handled(validation_mode, choice, outcome)

\* choice "Q"
Quit ==
    /\ LoopTop
    /\ frame' = Ended(frame.validation_mode, "quit")
    /\ UNCHANGED <<file_order, disk, now, last, steps, det, calls, skip_unchanged_global, side>>

\* Ctrl-C at the menu or at a prompt or call of a handler
KeyboardInterrupt ==
    /\ frame.pc # "ended"
    /\ frame' = Ended(frame.validation_mode, "interrupt")
    /\ UNCHANGED <<file_order, disk, now, last, steps, det, calls, skip_unchanged_global, side>>

\* choice "A": get_bicep_files, then deploy_all_templates
HandleDeployAll ==
    /\ LoopTop
    /\ steps < MaxChoices
    /\ steps' = steps + 1
    /\ calls' = <<>>
    /\ frame' = AfterStart([NewFrame(frame.validation_mode,
                                     GetBicepFiles(file_order, disk))
                                EXCEPT !.start_order = file_order],
                           GetBicepFiles(file_order, disk))
    /\ UNCHANGED <<file_order, disk, now, last, det, skip_unchanged_global, side>>

\* an exception has left deploy_all_templates and reaches the loop
CatchException ==
    /\ frame.pc = "raised"
    /\ frame' = AfterHandler(frame.validation_mode, "A", "raise")
    /\ UNCHANGED <<file_order, disk, now, last, steps, det, calls, skip_unchanged_global, side>>

\* All -> Changed -> Skip -> All
NextValidationMode(validation_mode) ==
    IF validation_mode = "All" THEN "Changed"
    ELSE IF validation_mode = "Changed" THEN "Skip"
    ELSE "All"

\* choice "V": the mode is switched, then saved
HandleToggleValidationMode ==
    /\ LoopTop
    /\ steps < MaxChoices
    /\ steps' = steps + 1
    /\ calls' = <<>>
    /\ frame' = AfterHandler(NextValidationMode(frame.validation_mode), "V",
                             SaveOutcome(faults))
    /\ UNCHANGED <<file_order, disk, now, last, det, skip_unchanged_global, side>>

\* choice "R": refresh_file_list, which saves when it found new files
HandleRefreshFiles ==
    /\ LoopTop
    /\ steps < MaxChoices
    /\ steps' = steps + 1
    /\ calls' = <<>>
    /\ LET r == RefreshFileList(file_order, disk)
           outcome == IF r.fo # file_order THEN SaveOutcome(faults) ELSE "ok"
       IN  /\ file_order' = IF outcome = "ok" THEN r.fo ELSE file_order
           /\ frame' = AfterHandler(frame.validation_mode, "R", outcome)
    /\ UNCHANGED <<disk, now, last, det, skip_unchanged_global, side>>

\* choice "P": the selection is saved to the settings
HandleSelectParameterFile ==
    /\ LoopTop
    /\ steps < MaxChoices
    /\ steps' = steps + 1
    /\ calls' = <<>>
    /\ frame' = AfterHandler(frame.validation_mode, "P", SaveOutcome(faults))
    /\ UNCHANGED <<file_order, disk, now, last, det, skip_unchanged_global, side>>

\* choice "C": the configuration menu returns or throws
ShowConfigurationMenu ==
    /\ LoopTop
    /\ steps < MaxChoices
    /\ steps' = steps + 1
    /\ calls' = <<>>
    /\ \E outcome \in Raising :
        frame' = AfterHandler(frame.validation_mode, "C", outcome)
    /\ UNCHANGED <<file_order, disk, now, last, det, skip_unchanged_global, side>>

\* the names of the templates, in the order of the list
Names(templates) == [i \in 1..Len(templates) |-> templates[i].name]

\* the orders the reorder menu can return: the names, moved around
Orderings(names) ==
    {s \in [1..Len(names) -> Range(names)] : Range(s) = Range(names)}

\* the loop of _handle_reorder_templates over the templates: on holds the
\* names of the templates that left the reorder menu enabled
RECURSIVE SetEnabledEach(_, _, _, _)
SetEnabledEach(fo, d, names, on) ==
    IF names = <<>> THEN fo
    ELSE SetEnabledEach(SetTemplateEnabled(fo, d, Head(names), Head(names) \in on).fo,
                        d, Tail(names), on)

\* choice "O": the reorder menu, then set_template_enabled for every
\* template and reorder_templates when the order differs from the listed one
HandleReorderTemplates ==
    /\ LoopTop
    /\ steps < MaxChoices
    /\ steps' = steps + 1
    /\ calls' = <<>>
    /\ \E new_order \in Orderings(Names(GetBicepFiles(file_order, disk))),
          on \in SUBSET DOMAIN disk :
        LET enabled == SetEnabledEach(file_order, disk, new_order, on)
            reordered == IF new_order # <<>>
                            /\ new_order # Names(GetBicepFiles(enabled, disk))
                         THEN ReorderTemplates(enabled, new_order)
                         ELSE enabled
        IN  /\ file_order' = IF SaveOutcome(faults) = "ok" THEN reordered ELSE file_order
            /\ frame' = AfterHandler(frame.validation_mode, "O", SaveOutcome(faults))
    /\ UNCHANGED <<disk, now, last, det, skip_unchanged_global, side>>

\* the loop after deploy_bicep_template was called from the menu, with what
\* the call did
AfterSingle(validation_mode, item) ==
    [pc |-> "single", validation_mode |-> validation_mode, item |-> item]

\* choice of a number: _handle_deploy_individual
HandleDeployIndividual ==
    /\ LoopTop
    /\ steps < MaxChoices
    /\ steps' = steps + 1
    /\ LET templates == GetBicepFiles(file_order, disk)
       IN  \/ \* not a number of the list, or the template is disabled or empty
              /\ \E template_num \in 0..(Len(templates) + 1) :
                     IF template_num \notin 1..Len(templates) THEN TRUE
                     ELSE \/ ~templates[template_num].enabled
                          \/ templates[template_num].size = 0
              /\ frame' = Handled(frame.validation_mode, "number", "ok")
              /\ calls' = <<>>
              /\ UNCHANGED <<file_order, skip_unchanged_global>>
           \/ \* the operator says N after the warning, or Q at the mode prompt
              /\ \E template_num \in 1..Len(templates) :
                     /\ templates[template_num].enabled
                     /\ templates[template_num].size # 0
                     /\ \/ PriorFailure(templates[template_num])
                        \/ template_num = 1
              /\ frame' = Handled(frame.validation_mode, "number", "ok")
              /\ calls' = <<>>
              /\ UNCHANGED <<file_order, skip_unchanged_global>>
           \/ \E template_num \in 1..Len(templates) :
                 /\ templates[template_num].enabled
                 /\ templates[template_num].size # 0
                 /\ \E mode \in {"Incremental", "Complete"},
                       answer \in Asked(file_order, disk, skip_unchanged_global,
                                        templates[template_num].name),
                       validated \in Validated(FALSE, frame.validation_mode,
                                        templates[template_num].needs_redeployment),
                       deployed \in Outcomes,
                       stat \in StatOutcomes(faults) :
                     LET t == templates[template_num]
                         r == DeployBicepTemplate(file_order, disk, now,
                                  skip_unchanged_global, t.name, mode, "prompt",
                                  FALSE, frame.validation_mode, t.needs_redeployment,
                                  answer, validated, deployed, stat, SaveOutcome(faults))
                         item == [i |-> template_num,
                                  name |-> t.name,
                                  unchanged |-> stat = "ok" /\
                                      ~TestTemplateModified(file_order, disk, t.name),
                                  prompted |-> r.prompted,
                                  answer |-> IF r.prompted THEN answer ELSE "",
                                  result |-> r.result,
                                  calls |-> r.calls,
                                  validated |-> ValidationOutcome(r.calls, validated),
                                  kept |-> r.fo = file_order,
                                  mode |-> mode]
                     IN  /\ mode = "Complete" => template_num = 1
                         /\ file_order' = r.fo
                         /\ calls' = r.calls
                         /\ skip_unchanged_global' = r.global
                         /\ frame' = IF r.result = "raised" /\ ~Caught("Exception")
                                     THEN Ended(frame.validation_mode, "exception")
                                     ELSE AfterSingle(frame.validation_mode, item)
    /\ UNCHANGED <<disk, now, last, det, side>>

\* the first choice at the menu is the number of a template
DeployIndividualTemplate ==
    /\ frame.pc = "menu"
    /\ HandleDeployIndividual

\* the first choice at the menu is "A" or a number, and its handler runs
BatchNext ==
    \/ DeployAllTemplates
    \/ DeployIndividualTemplate
    \/ ValidateTemplate
    \/ ValidationPrompt
    \/ GetDeploymentMode
    \/ PriorFailurePrompt
    \/ DeployTemplate
    \/ ContinuePrompt
    \/ FinishBatch

SpecBatch == BatchInit /\ [][BatchNext]_vars

SessionNext ==
    \/ Quit
    \/ KeyboardInterrupt
    \/ HandleDeployAll
    \/ CatchException
    \/ HandleToggleValidationMode
    \/ HandleRefreshFiles
    \/ HandleSelectParameterFile
    \/ ShowConfigurationMenu
    \/ HandleReorderTemplates
    \/ HandleDeployIndividual
    \/ ValidateTemplate
    \/ ValidationPrompt
    \/ GetDeploymentMode
    \/ PriorFailurePrompt
    \/ DeployTemplate
    \/ ContinuePrompt
    \/ FinishBatch

SpecSession == SessionInit /\ [][SessionNext]_vars

----------------------------------------------------------------------------
(* The spinner, DeploymentLogger.show_progress_spinner, under the per-item *)
(* deploy of "a.bicep": the caller starts a worker thread for the wrapped  *)
(* operation, draws the spinner while the thread is alive, joins it and    *)
(* returns its result or throws its exception; the per-item deploy then    *)
(* writes the outcome to the history.  The worker runs on its own.         *)

SpinnerFile == "a.bicep"

\* the caller before its first call of the spinner; workers holds one
\* record per thread started, writes one per update of the history
BeforeSpinner(op) ==
    [pc |-> "call", op |-> op, spins |-> 0, workers |-> <<>>, writes |-> <<>>]

SpinnerInit ==
    /\ file_order \in SessionOrders
    /\ disk = [f \in SessionFiles |-> [content |-> 1, mtime |-> 0, readable |-> TRUE]]
    /\ now = 0
    /\ last = NoCall
    /\ steps = 0
    /\ det = NoDet
    /\ frame = NoBatch
    /\ calls = <<>>
    /\ skip_unchanged_global = "prompt"
    /\ faults = NoFaults
    /\ settings_file = NoSettingsFile
    /\ loaded = NoLoad
    /\ spinner \in {BeforeSpinner(op) : op \in {"validate", "deploy"}}

\* the thread started last
Worker == spinner.workers[Len(spinner.workers)]

\* a thread counted as over from its start
ThreadDoneAtOnce(worker) == TRUE

\* the thread has run to its end: is_alive() is false, join() returns
ThreadDone(worker) == worker.state = "finished"

\* thread = threading.Thread(target=run_target); thread.start()
ShowProgressSpinner ==
    /\ spinner.pc = "call"
    /\ spinner' = [spinner EXCEPT
                      !.pc = "loop", !.spins = 0,
                      !.workers = Append(@, [op |-> spinner.op, state |-> "running",
                                             outcome |-> ""])]
    /\ calls' = Append(calls, [op |-> spinner.op, f |-> SpinnerFile, mode |-> "Incremental",
                               phase |-> "item"])
    /\ UNCHANGED <<file_order, disk, now, last, steps, det, frame, skip_unchanged_global,
                   faults, settings_file, loaded>>

\* run_target in the worker thread: the operation returns or throws
RunTarget ==
    /\ spinner.workers # <<>>
    /\ \E k \in 1..Len(spinner.workers), outcome \in Outcomes :
        /\ spinner.workers[k].state = "running"
        /\ spinner' = [spinner EXCEPT !.workers[k].state = "finished",
                                      !.workers[k].outcome = outcome]
    /\ UNCHANGED <<file_order, disk, now, last, steps, det, batch, faults, settings_file, loaded>>

\* while thread.is_alive(): draw the spinner, sleep
SpinnerLoop ==
    /\ spinner.pc = "loop"
    /\ IF ThreadDone(Worker)
       THEN spinner' = [spinner EXCEPT !.pc = "join"]
       ELSE /\ spinner.spins < MaxSpins
            /\ spinner' = [spinner EXCEPT !.spins = @ + 1]
    /\ UNCHANGED <<file_order, disk, now, last, steps, det, batch, faults, settings_file, loaded>>

\* thread.join(), then the result is returned or the exception thrown
ThreadJoin ==
    /\ spinner.pc = "join"
    /\ ThreadDone(Worker)
    /\ spinner' = [spinner EXCEPT
                      !.pc = IF Worker.outcome = "raise" THEN "raised" ELSE "returned"]
    /\ UNCHANGED <<file_order, disk, now, last, steps, det, batch, faults, settings_file, loaded>>

\* Ctrl-C while the caller sleeps in the loop or waits in join: the
\* KeyboardInterrupt leaves the spinner and the per-item deploy
SpinnerInterrupt ==
    /\ spinner.pc \in {"loop", "join"}
    /\ spinner' = [spinner EXCEPT !.pc = "interrupted"]
    /\ UNCHANGED <<file_order, disk, now, last, steps, det, batch, faults, settings_file, loaded>>

\* the update of the history, with the state of the worker at that moment
Written(success) ==
    Append(spinner.writes, [op |-> spinner.op, success |-> success,
                            worker |-> Worker.state, outcome |-> Worker.outcome])

\* deploy_bicep_template after a call of the spinner: a failed or thrown
\* validation or deployment is written to the history, a passed validation
\* is followed by the deploy call, a deployment that worked is written
RecordOutcome ==
    /\ spinner.pc \in {"returned", "raised"}
    /\ LET passed == spinner.pc = "returned" /\ Worker.outcome = "ok"
       IN  IF passed /\ spinner.op = "validate"
           THEN /\ spinner' = [spinner EXCEPT !.pc = "call", !.op = "deploy"]
                /\ UNCHANGED file_order
           ELSE /\ spinner' = [spinner EXCEPT !.pc = "over", !.writes = Written(passed)]
                /\ file_order' =
                       UpdateDeploymentHistory(file_order, disk, now, SpinnerFile, passed,
                           IF passed THEN None
                           ELSE IF spinner.pc = "raised"
                           THEN Some(UnexpectedError(ExceptionText))
                           ELSE IF spinner.op = "validate"
                           THEN Some(ValidationFailed(ValidationMessage))
                           ELSE Some(DeploymentFailed(DeployMessage)))
    /\ UNCHANGED <<disk, now, last, steps, det, batch, faults, settings_file, loaded>>

SpinnerNext ==
    \/ ShowProgressSpinner
    \/ RunTarget
    \/ SpinnerLoop
    \/ ThreadJoin
    \/ SpinnerInterrupt
    \/ RecordOutcome

SpecSpinner == SpinnerInit /\ [][SpinnerNext]_vars

----------------------------------------------------------------------------
(* The settings file as text: ConfigManager.load_deployment_settings and   *)
(* save_deployment_settings.  A JSON value is a record tagged with its     *)
(* type, a Python value a record tagged with its class; both keep the      *)
(* members of an object or dict in their order.  The file is missing,      *)
(* holds a text somebody wrote, or holds what save_deployment_settings     *)
(* dumped.                                                                 *)

Null == [type |-> "null"]
Str(s) == [type |-> "string", s |-> s]
Number(n) == [type |-> "number", n |-> n]
Bool(b) == [type |-> "boolean", b |-> b]
Array(items) == [type |-> "array", items |-> items]
Object(members) == [type |-> "object", members |-> members]

PyNone == [py |-> "NoneType"]
PyStr(s) == [py |-> "str", v |-> s]
PyInt(n) == [py |-> "int", v |-> n]
PyBool(b) == [py |-> "bool", v |-> b]
PyList(items) == [py |-> "list", v |-> items]
PyDict(items) == [py |-> "dict", v |-> items]

\* one member of an object, one item of a dict
Item(key, value) == [key |-> key, value |-> value]

JSONDecodeError == [error |-> "JSONDecodeError"]

\* an encoder that leaves out the items of a dict whose value is None
RECURSIVE JsonEncodeSkippingNone(_)
JsonEncodeSkippingNone(o) ==
    CASE o.py = "NoneType" -> Null
      [] o.py = "str" -> Str(o.v)
      [] o.py = "int" -> Number(o.v)
      [] o.py = "bool" -> Bool(o.v)
      [] o.py = "list" -> Array([i \in 1..Len(o.v) |-> JsonEncodeSkippingNone(o.v[i])])
      [] OTHER ->
          LET HasValue(it) == it.value # PyNone
              kept == SelectSeq(o.v, HasValue)
          IN  Object([i \in 1..Len(kept) |->
                         Item(kept[i].key, JsonEncodeSkippingNone(kept[i].value))])

\* json.dump: the JSON value written for a Python value
RECURSIVE JsonEncode(_)
JsonEncode(o) ==
    CASE o.py = "NoneType" -> Null
      [] o.py = "str" -> Str(o.v)
      [] o.py = "int" -> Number(o.v)
      [] o.py = "bool" -> Bool(o.v)
      [] o.py = "list" -> Array([i \in 1..Len(o.v) |-> JsonEncode(o.v[i])])
      [] OTHER -> Object([i \in 1..Len(o.v) |->
                             Item(o.v[i].key, JsonEncode(o.v[i].value))])

\* json.load: the Python value built for a JSON value
RECURSIVE JsonDecode(_)
JsonDecode(j) ==
    CASE j.type = "null" -> PyNone
      [] j.type = "string" -> PyStr(j.s)
      [] j.type = "number" -> PyInt(j.n)
      [] j.type = "boolean" -> PyBool(j.b)
      [] j.type = "array" -> PyList([i \in 1..Len(j.items) |-> JsonDecode(j.items[i])])
      [] OTHER -> PyDict([i \in 1..Len(j.members) |->
                             Item(j.members[i].key, JsonDecode(j.members[i].value))])

\* texts found in .deployment-settings.json
Documents ==
    { "", "{", "[]", "null", "7", "{}", "{\"FileOrder\": null}",
      "{\"SelectedParameterFile\": \"p.json\", \"FileOrder\": []}" }

\* the JSON value each of the texts stands for
JsonParse(text) ==
    CASE text = "" -> JSONDecodeError
      [] text = "{" -> JSONDecodeError
      [] text = "[]" -> Array(<<>>)
      [] text = "null" -> Null
      [] text = "7" -> Number(7)
      [] text = "{}" -> Object(<<>>)
      [] text = "{\"FileOrder\": null}" -> Object(<<Item("FileOrder", Null)>>)
      [] OTHER -> Object(<<Item("SelectedParameterFile", Str("p.json")),
                           Item("FileOrder", Array(<<>>))>>)

\* json.loads on each of the texts
JsonLoads(text) ==
    IF JsonParse(text) = JSONDecodeError THEN JSONDecodeError
    ELSE JsonDecode(JsonParse(text))

MissingFile == [kind |-> "missing"]
TextFile(text) == [kind |-> "text", text |-> text]
\* json.dump(data, f): the file holds the JSON value of data; settings is
\* the value save_deployment_settings was called with
JsonDump(data, settings) ==
    [kind |-> "json", value |-> JsonEncode(data), settings |-> settings]

\* json.load(f) on the file
JsonLoad(file) ==
    IF file.kind = "json" THEN JsonDecode(file.value) ELSE JsonLoads(file.text)

\* DeploymentSettings(...) with __post_init__
DeploymentSettings(selected_parameter_file, last_updated, file_order_, configuration) ==
    [selected_parameter_file |-> selected_parameter_file,
     last_updated |-> last_updated,
     file_order |-> IF file_order_ = PyNone THEN PyList(<<>>) ELSE file_order_,
     configuration |-> IF configuration = PyNone THEN PyDict(<<>>) ELSE configuration]

DefaultSettings == DeploymentSettings(PyNone, PyNone, PyNone, PyNone)

\* the positions of key in a dict
Positions(data, key) == {i \in 1..Len(data.v) : data.v[i].key = key}

\* data.get(key, default) on a dict
DictGet(data, key, default) ==
    IF Positions(data, key) # {} THEN data.v[SetMax(Positions(data, key))].value
    ELSE default

\* data[key] = value on a dict: in place, or at the end for a new key
DictSet(data, key, value) ==
    IF Positions(data, key) # {}
    THEN PyDict([data.v EXCEPT ![SetMax(Positions(data, key))].value = value])
    ELSE PyDict(Append(data.v, Item(key, value)))

\* the exceptions the except clause of load_deployment_settings names
LoadCatches(exception) == exception \in {"JSONDecodeError", "FileNotFoundError"}

\* what leaves load_deployment_settings
LoadReturns(settings) == [called |-> TRUE, raised |-> "", settings |-> settings]
LoadRaises(exception) ==
    IF LoadCatches(exception) THEN LoadReturns(DefaultSettings)
    ELSE [called |-> TRUE, raised |-> exception, settings |-> DefaultSettings]

LoadDeploymentSettingsFrom(file) ==
    IF file.kind = "missing" THEN LoadReturns(DefaultSettings)
    ELSE LET data == JsonLoad(file)
         IN  IF data = JSONDecodeError THEN LoadRaises("JSONDecodeError")
             ELSE IF data.py # "dict" THEN LoadRaises("AttributeError")
             ELSE LoadReturns(DeploymentSettings(
                      DictGet(data, "SelectedParameterFile", PyNone),
                      DictGet(data, "LastUpdated", PyNone),
                      DictGet(data, "FileOrder", PyList(<<>>)),
                      DictGet(data, "Configuration", PyDict(<<>>))))

\* the dict save_deployment_settings dumps, stamped with the time
SavedData(settings, t) ==
    PyDict(<<Item("SelectedParameterFile", settings.selected_parameter_file),
             Item("LastUpdated", PyStr(Strftime(t))),
             Item("FileOrder", settings.file_order),
             Item("Configuration", settings.configuration)>>)

\* what the callers of save_deployment_settings change in the settings they
\* have loaded: the parameter file chosen, a key of the configuration, or an
\* entry more in file_order
Changes ==
    {[at |-> "selected_parameter_file", value |-> v] : v \in {PyNone, PyStr("p.json")}}
    \cup {[at |-> "configuration", key |-> "ValidationMode", value |-> PyStr("Skip")],
          [at |-> "configuration", key |-> "ConsoleWidth", value |-> PyInt(75)],
          [at |-> "configuration", key |-> "azure_cache",
           value |-> PyDict(<<Item("tenant_info", PyNone),
                              Item("cli_available", PyBool(FALSE))>>)],
          [at |-> "file_order",
           value |-> PyDict(<<Item("FileName", PyStr("a.bicep")),
                              Item("Enabled", PyBool(TRUE)),
                              Item("LastFileHash", PyNone)>>)]}

\* the number of entries the callers add to file_order in one behaviour
MaxEntries == 1

Changed(settings, change) ==
    CASE change.at = "selected_parameter_file" ->
             [settings EXCEPT !.selected_parameter_file = change.value]
      [] change.at = "configuration" ->
             [settings EXCEPT !.configuration = DictSet(@, change.key, change.value)]
      [] OTHER ->
             [settings EXCEPT !.file_order = PyList(Append(@.v, change.value))]

ConfigInit ==
    /\ file_order = <<>>
    /\ disk = [f \in {} |-> [content |-> 1, mtime |-> 0, readable |-> TRUE]]
    /\ now = 0
    /\ last = NoCall
    /\ steps = 0
    /\ det = NoDet
    /\ frame = NoBatch
    /\ calls = <<>>
    /\ skip_unchanged_global = "prompt"
    /\ faults = NoFaults
    /\ spinner = NoSpinner
    /\ settings_file \in {MissingFile} \cup {TextFile(text) : text \in Documents}
    /\ loaded = NoLoad

\* settings = self.config_manager.load_deployment_settings()
LoadDeploymentSettings ==
    /\ loaded' = LoadDeploymentSettingsFrom(settings_file) @@ [file |-> settings_file]
    /\ UNCHANGED <<file_order, disk, now, last, steps, det, batch, faults, settings_file,
                   spinner>>

\* a setter: the settings are loaded, changed and saved
SaveDeploymentSettings ==
    /\ \E change \in Changes :
          LET l == LoadDeploymentSettingsFrom(settings_file)
              settings == Changed(l.settings, change)
          IN  /\ l.raised = ""
              /\ change.at = "file_order" => Len(l.settings.file_order.v) < MaxEntries
              /\ loaded' = l @@ [file |-> settings_file]
              /\ settings_file' = JsonDump(SavedData(settings, now), settings)
    /\ UNCHANGED <<file_order, disk, now, last, steps, det, batch, faults, spinner>>

\* the file is written or removed by hand between two runs
EditSettingsFile ==
    /\ \E file \in {MissingFile} \cup {TextFile(text) : text \in Documents} :
           /\ file # settings_file
           /\ settings_file' = file
    /\ UNCHANGED <<file_order, disk, now, last, steps, det, batch, faults, loaded, spinner>>

ClockAdvances ==
    /\ now < MaxTime
    /\ now' = now + 1
    /\ UNCHANGED <<file_order, disk, last, steps, det, batch, side>>

ConfigNext ==
    \/ LoadDeploymentSettings
    \/ SaveDeploymentSettings
    \/ EditSettingsFile
    \/ ClockAdvances

SpecConfig == ConfigInit /\ [][ConfigNext]_vars

----------------------------------------------------------------------------
(* Properties of the change detector (checked under SpecDetector). *)

StoredHash(e) ==
    IF HasKey(e, "LastFileHash") THEN e.LastFileHash ELSE NoHash

\* C2: for a record whose last deployment succeeded, with a stored hash and
\* a current hash both present, needs_redeployment is true exactly when the
\* hashes differ, whatever the file time and the stored timestamp are.
C2_HashDecides ==
    (/\ det.done
     /\ Get(det.file_settings, "LastDeploymentSuccess") = Some(TRUE)
     /\ StoredHash(det.file_settings) # NoHash
     /\ det.current_hash # NoHash)
    => (det.result <=> det.current_hash # StoredHash(det.file_settings))

\* C2 witness: equal hashes, the file modified after the stored deployment
\* time, and the detector has answered "unchanged".
C2_Witness ==
    /\ det.done
    /\ Get(det.file_settings, "LastDeploymentSuccess") = Some(TRUE)
    /\ det.current_hash # NoHash
    /\ det.current_hash = StoredHash(det.file_settings)
    /\ HasKey(det.file_settings, "LastDeployment")
    /\ det.file_settings.LastDeployment # Unparsable
    /\ det.stat_ok
    /\ det.mtime > Strptime(det.file_settings.LastDeployment)
    /\ ~det.result

\* C3: for a record whose last deployment outcome is failure,
\* needs_redeployment is true for every hash and every timestamp.
C3_FailedAlwaysNeeds ==
    (det.done /\ Get(det.file_settings, "LastDeploymentSuccess") = Some(FALSE))
    => det.result

\* C3 witness: a failed record whose stored hash equals the current one and
\* whose file is not newer than the stored deployment time.
C3_Witness ==
    /\ det.done
    /\ Get(det.file_settings, "LastDeploymentSuccess") = Some(FALSE)
    /\ det.current_hash # NoHash
    /\ det.current_hash = StoredHash(det.file_settings)
    /\ HasKey(det.file_settings, "LastDeployment")
    /\ det.file_settings.LastDeployment # Unparsable
    /\ det.mtime <= Strptime(det.file_settings.LastDeployment)
    /\ det.result

\* the stored deployment time of a record: None when there is none
StoredTime(e) == IF e = <<>> THEN None ELSE Get(e, "LastDeployment")

\* the outcome a record shows: "none" without a record
Outcome(e) ==
    IF e = <<>> THEN "none"
    ELSE IF Get(e, "LastDeploymentSuccess") = None THEN "unset"
    ELSE IF e.LastDeploymentSuccess THEN "success"
    ELSE "failure"

\* both hashes are there
BothHashes == det.current_hash # NoHash /\ det.file_settings # <<>>
                  /\ StoredHash(det.file_settings) # NoHash

\* both times can be read
BothTimes == det.stat_ok /\ StoredTime(det.file_settings) # None
                 /\ StoredTime(det.file_settings) # Some(Unparsable)

\* the file was modified strictly after the stored deployment time
ModifiedAfter == BothTimes /\ det.mtime > Strptime(StoredTime(det.file_settings)[1])

\* the six rules in their order: when each applies and what it answers
Rules ==
    << [applies |-> Outcome(det.file_settings) = "none", answer |-> TRUE],
       [applies |-> Outcome(det.file_settings) = "failure", answer |-> TRUE],
       [applies |-> Outcome(det.file_settings) = "unset", answer |-> FALSE],
       [applies |-> BothHashes,
        answer |-> BothHashes /\ det.current_hash # StoredHash(det.file_settings)],
       [applies |-> StoredTime(det.file_settings) # None,
        answer |-> ~BothTimes \/ ModifiedAfter],
       [applies |-> TRUE, answer |-> TRUE] >>

FirstRule == SetMin({n \in 1..Len(Rules) : Rules[n].applies})

\* C25: the detector answers as the first of the six rules that applies,
\* for every record or none, outcome, pair of hashes and pair of times; for
\* a record with outcome success and a hash missing, the answer is whether
\* the file was modified strictly after the stored deployment time, and it
\* is true when that time is unparsable or absent.
C25_FirstRuleWins ==
    det.done =>
        /\ det.result = Rules[FirstRule].answer
        /\ (Outcome(det.file_settings) = "success" /\ ~BothHashes) =>
               /\ BothTimes => (det.result <=> ModifiedAfter)
               /\ StoredTime(det.file_settings) \in {None, Some(Unparsable)} => det.result

\* C25 witness: a success without stored hash, the file read and modified in
\* the second of the stored deployment time but after its start: the fifth
\* rule answers "changed".
C25_Witness ==
    /\ det.done
    /\ Outcome(det.file_settings) = "success"
    /\ det.current_hash # NoHash
    /\ ~HasKey(det.file_settings, "LastFileHash")
    /\ FirstRule = 5
    /\ BothTimes
    /\ Strftime(det.mtime) = StoredTime(det.file_settings)[1]
    /\ det.result

----------------------------------------------------------------------------
(* Properties of the registry (checked under Spec). *)

Unrecorded(f) == Matches(file_order, f) = {}

\* C4 as stated: every file on disk without a record is reported with
\* needs_redeployment true and no outcome, and shows as "never deployed".
C4_NeverDeployedShown ==
    \A f \in DOMAIN disk :
        Unrecorded(f) =>
            /\ Template(file_order, disk, f).needs_redeployment
            /\ Template(file_order, disk, f).last_deployment_success = None
            /\ DeploymentStatusIndicator(Template(file_order, disk, f)) = "never deployed"

\* C4 amended: every file on disk without a record is reported with
\* needs_redeployment true and no outcome; it shows as "never deployed"
\* when it is not empty and as "empty" when it has zero bytes, never as
\* "changed".
C4_NeverDeployedOrEmpty ==
    \A f \in DOMAIN disk :
        Unrecorded(f) =>
            /\ Template(file_order, disk, f).needs_redeployment
            /\ Template(file_order, disk, f).last_deployment_success = None
            /\ DeploymentStatusIndicator(Template(file_order, disk, f)) =
                   IF StatSize(disk, f) = 0 THEN "empty" ELSE "never deployed"

\* C4 witness: a non-empty file without a record next to changed files
\* that have one.
C4_Witness ==
    \E f \in DOMAIN disk, g \in DOMAIN disk :
        /\ Unrecorded(f)
        /\ StatSize(disk, f) # 0
        /\ DeploymentStatusIndicator(Template(file_order, disk, f)) = "never deployed"
        /\ DeploymentStatusIndicator(Template(file_order, disk, g)) = "changed"

\* C5: a zero-byte file is discovered as disabled whatever its record
\* says, and set_template_enabled(name, True) on it returns False and
\* leaves the persisted order as it was.
C5_EmptyStaysDisabled ==
    /\ \A f \in DOMAIN disk :
           StatSize(disk, f) = 0 => ~Template(file_order, disk, f).enabled
    /\ (/\ last.op = "set_template_enabled"
        /\ last.enabled
        /\ StatSize(disk, last.f) = 0)
       => (~last.ret /\ file_order = last.before)

\* C5 witness: enabling was asked for a zero-byte file whose record says
\* Enabled, and was refused.
C5_Witness ==
    /\ last.op = "set_template_enabled"
    /\ last.enabled
    /\ StatSize(disk, last.f) = 0
    /\ ~last.ret
    /\ FileSettings(file_order, last.f) # <<>>
    /\ FileSettings(file_order, last.f).Enabled
    /\ ~Template(file_order, disk, last.f).enabled

NamedAt(fo, name) == {j \in 1..Len(fo) : fo[j].FileName = name}

\* C6: after reorder_templates(new_order) the persisted order is the
\* entries named in new_order, in that order and with their stored fields
\* (a fresh entry for a name not persisted before), then the entries not
\* named, in their former order; no former entry is lost.
C6_ReorderKeepsEntries ==
    last.op = "reorder_templates" =>
        LET old == last.before
            named == last.new_order
            NotNamed(e) == e.FileName \notin Range(named)
        IN  /\ Len(file_order) >= Len(named)
            /\ \A i \in 1..Len(named) :
                   /\ file_order[i].FileName = named[i]
                   /\ IF NamedAt(old, named[i]) = {}
                      THEN file_order[i] = BareEntry(named[i], TRUE)
                      ELSE \A j \in NamedAt(old, named[i]) : file_order[i] = old[j]
            /\ SubSeq(file_order, Len(named) + 1, Len(file_order)) =
                   SelectSeq(old, NotNamed)
            /\ \A j \in 1..Len(old) : \E i \in 1..Len(file_order) : file_order[i] = old[j]
            /\ Len(file_order) =
                   Len(old) + Cardinality({i \in 1..Len(named) : NamedAt(old, named[i]) = {}})

\* C6 witness: a reorder that moved an entry with history to the front,
\* added an entry for a new name and kept an entry that was not named.
C6_Witness ==
    /\ last.op = "reorder_templates"
    /\ Len(last.new_order) = 2
    /\ NamedAt(last.before, last.new_order[1]) # {}
    /\ NamedAt(last.before, last.new_order[1]) # {1}
    /\ HasHistory(file_order[1])
    /\ NamedAt(last.before, last.new_order[2]) = {}
    /\ Len(file_order) > 2

\* C7 as stated: after update_deployment_history(f, success, error) the
\* record of f has that outcome, holds the error when success is false and
\* an error was given, and holds no error otherwise.
C7_ErrorFollowsOutcome ==
    last.op = "update_deployment_history" =>
        LET e == FileSettings(file_order, last.f)
        IN  /\ Get(e, "LastDeploymentSuccess") = Some(last.success)
            /\ Get(e, "LastDeploymentError") =
                   IF ~last.success /\ last.error_message # None
                   THEN last.error_message ELSE None

\* C8 as stated: at most one persisted entry matches a file by its name or
\* its stem.
C8_OneEntryPerIdentity ==
    \A f \in AllFiles : Cardinality(Matches(file_order, f)) <= 1

----------------------------------------------------------------------------
(* Properties of the batch (checked under SpecBatch). *)

\* deploy_all_templates has been called
Running == frame.pc \notin {"idle", "menu", "handled", "single", "ended"}

\* the position in the enabled batch of the template a call was made for
ItemOf(f) ==
    CHOOSE k \in 1..Len(frame.enabled_templates) : frame.enabled_templates[k].name = f

CountResults(S) ==
    Cardinality({k \in 1..Len(frame.results) : frame.results[k].result \in S})

\* C1: once the operator has answered N to the continue prompt after a
\* failed item, the batch has ended: no call of the external tool and no
\* change of a record follows, no later item has a result, and the counts
\* returned are those of the items up to the failed one.
C1_DeclineHaltsBatch ==
    (Running /\ frame.halted # 0) =>
        /\ frame.pc = "done"
        /\ Len(calls) = frame.halt_calls
        /\ file_order = frame.halt_order
        /\ \A k \in 1..Len(frame.results) : frame.results[k].i <= frame.halted
        /\ \A k \in 1..Len(calls) :
               calls[k].phase = "item" => ItemOf(calls[k].f) <= frame.halted
        /\ frame.ret = Some(<<CountResults({"success", "skipped"}),
                              CountResults({"failure"})>>)

\* C1 witness: three enabled templates, the first deployed, the second
\* failed, the operator declined: (1, 1) and nothing done for the third.
C1_Witness ==
    /\ Running
    /\ frame.pc = "done"
    /\ Len(frame.enabled_templates) = 3
    /\ frame.halted = 2
    /\ frame.results = <<[i |-> 1, result |-> "success"], [i |-> 2, result |-> "failure"]>>
    /\ frame.ret = Some(<<1, 1>>)
    /\ \A k \in 1..Len(calls) : calls[k].f # frame.enabled_templates[3].name

CompleteDeploys ==
    {k \in 1..Len(calls) : calls[k].op = "deploy" /\ calls[k].mode = "Complete"}

\* C9: a deploy call in Complete mode is made only for the first item of
\* the enabled batch and only after the operator chose C and confirmed with
\* Y; every deploy call for a later item is Incremental; at most one
\* deploy call of a batch is in Complete mode.
C9_CompleteOnlyFirst ==
    Running =>
        /\ \A k \in 1..Len(calls) :
               calls[k].op = "deploy" =>
                   /\ calls[k].mode = "Complete" =>
                          (ItemOf(calls[k].f) = 1 /\ frame.complete_confirmed)
                   /\ ItemOf(calls[k].f) > 1 => calls[k].mode = "Incremental"
        /\ Cardinality(CompleteDeploys) <= 1

\* C9 witness: Complete was chosen and confirmed, the first item was
\* deployed in Complete mode and a later one in Incremental mode.
C9_Witness ==
    /\ Running
    /\ frame.mode = Some("Complete")
    /\ frame.complete_confirmed
    /\ \E k \in 1..Len(calls), l \in 1..Len(calls) :
           /\ calls[k].op = "deploy" /\ calls[k].mode = "Complete"
           /\ ItemOf(calls[k].f) = 1
           /\ calls[l].op = "deploy" /\ calls[l].mode = "Incremental"
           /\ ItemOf(calls[l].f) > 1

\* C10: the batch returns (s, f) with s the number of per-item deploys
\* that returned success or "skipped" and f the number that returned
\* failure; s + f is the number of per-item deploys made, at most the
\* number of enabled templates; an item declined at the prior-failure
\* prompt or left after a halt has no result.
C10_CountsMatchResults ==
    (Running /\ frame.pc = "done") =>
        /\ frame.ret = Some(<<CountResults({"success", "skipped"}),
                              CountResults({"failure"})>>)
        /\ frame.ret[1][1] + frame.ret[1][2] = Len(frame.results)
        /\ Len(frame.results) <= Len(frame.enabled_templates)
        /\ \A k \in 1..Len(frame.results), l \in 1..Len(frame.results) :
               k < l => frame.results[k].i < frame.results[l].i
        /\ \A k \in 1..Len(frame.results) :
               /\ frame.results[k].i \notin frame.declined
               /\ frame.halted # 0 => frame.results[k].i <= frame.halted

\* C10 witness: a finished batch with an item declined, an item skipped
\* as unchanged and an item failed.
C10_Witness ==
    /\ Running
    /\ frame.pc = "done"
    /\ frame.declined # {}
    /\ CountResults({"skipped"}) = 1
    /\ CountResults({"failure"}) = 1
    /\ frame.ret = Some(<<1, 1>>)
    /\ Len(frame.enabled_templates) = 3

\* the positions in the log of the calls with operation op made for file f
CallsFor(op, f) == {k \in 1..Len(calls) : calls[k].op = op /\ calls[k].f = f}

EnabledNames == {frame.enabled_templates[k].name : k \in 1..Len(frame.enabled_templates)}

\* the validation pass of the batch is over
Validating == frame.pc = "validating"

\* C11: in a batch with validation mode All every validate call is made
\* for an enabled template and comes before every deploy call; once the
\* validation pass is over every enabled (hence non-empty) template has been
\* validated exactly once, and no validate call is made by a per-item
\* deploy, whatever the validations returned.
C11_ValidateAllFirst ==
    (Running /\ frame.validation_mode = "All") =>
        /\ \A k \in 1..Len(calls) :
               calls[k].op = "validate" =>
                   /\ calls[k].phase = "bulk"
                   /\ calls[k].f \in EnabledNames
                   /\ \A l \in 1..Len(calls) : calls[l].op = "deploy" => k < l
        /\ \A f \in EnabledNames :
               /\ Cardinality(CallsFor("validate", f)) <= 1
               /\ ~Validating => Cardinality(CallsFor("validate", f)) = 1
        /\ \A k \in 1..Len(frame.enabled_templates) :
               frame.enabled_templates[k].size > 0

\* C11 witness: mode All, three templates validated, one of them failing,
\* the operator went on, and a template was deployed.
C11_Witness ==
    /\ Running
    /\ frame.validation_mode = "All"
    /\ frame.failed_validations > 0
    /\ Len(frame.enabled_templates) = 3
    /\ \E k \in 1..Len(calls) : calls[k].op = "deploy"
    /\ frame.pc = "done"

DeploymentKeys == {"LastDeploymentSuccess", "LastDeploymentError", "LastDeployment", "LastFileHash"}

\* what a record says about the last deployment
DeploymentPart(e) == [k \in DeploymentKeys |-> Get(e, k)]

\* the batch has returned without a deploy mode: the operator did not go on
\* after failed validations, or chose Quit
Aborted ==
    /\ Running
    /\ frame.pc = "done"
    /\ frame.enabled_templates # <<>>
    /\ frame.mode = None

\* C12: a batch aborted before the deploy pass returns (0, 0), has made no
\* deploy call, and has left outcome, error, time and hash of the last
\* deployment of every template as they were when it started.
C12_AbortLeavesDeployments ==
    Aborted =>
        /\ frame.ret = Some(<<0, 0>>)
        /\ \A k \in 1..Len(calls) : calls[k].op # "deploy"
        /\ frame.items = <<>>
        /\ \A f \in AllFiles :
               DeploymentPart(FileSettings(file_order, f)) =
                   DeploymentPart(FileSettings(frame.start_order, f))

\* C12 witness: a validation failed, the operator did not answer Y, and the
\* validations have been written down.
C12_Witness ==
    /\ Aborted
    /\ frame.failed_validations > 0
    /\ frame.successful_validations > 0
    /\ file_order # frame.start_order
    /\ frame.ret = Some(<<0, 0>>)

\* the per-item deploys of the batch before deploy number l in which the
\* operator gave the answer a
Answered(a, l) == {k \in 1..(l - 1) : frame.items[k].answer = a}

HasDeployCall(item) == \E k \in 1..Len(item.calls) : item.calls[k].op = "deploy"

Untouched(item) ==
    /\ item.result = "skipped"
    /\ item.calls = <<>>
    /\ item.kept

\* C14: in one batch, an unchanged item that comes after the answer A is
\* skipped without a prompt, without a call and without a change of its
\* record; one that comes after the answer L is deployed without a prompt;
\* one that comes after neither is prompted for, whatever was answered Y or
\* N before, and is then deployed or skipped as answered.
C14_StickyWithinBatch ==
    Running =>
        \A l \in 1..Len(frame.items) :
            LET item == frame.items[l]
            IN  item.unchanged =>
                    /\ Answered("A", l) # {} => (~item.prompted /\ Untouched(item))
                    /\ Answered("L", l) # {} => (~item.prompted /\ HasDeployCall(item))
                    /\ (Answered("A", l) = {} /\ Answered("L", l) = {}) => item.prompted
                    /\ (item.prompted /\ item.answer \in {"N", "A"}) => Untouched(item)
                    /\ (item.prompted /\ item.answer \in {"Y", "L"}) => HasDeployCall(item)

\* C14 witness: the first item was skipped once, the second got the answer
\* A, and the third, unchanged, was skipped without a prompt.
C14_Witness ==
    /\ Running
    /\ Len(frame.items) = 3
    /\ frame.items[1].answer = "N"
    /\ frame.items[2].prompted /\ frame.items[2].answer = "A"
    /\ frame.items[3].unchanged /\ ~frame.items[3].prompted
    /\ frame.items[3].result = "skipped"

\* the template of the batch with the given name
EnabledTemplate(f) == frame.enabled_templates[ItemOf(f)]

NoValidateCall == \A k \in 1..Len(calls) : calls[k].op # "validate"

\* C13: in a batch with mode Changed every validate call belongs to the
\* validation pass and is made for an enabled template that needs
\* redeployment; after the pass each of these has been validated exactly
\* once, and an enabled template that does not need redeployment gets no
\* validate call, also when it is deployed.  With mode Skip no validate call
\* is made, neither in a batch nor in the deploy of one template chosen at
\* the menu.
C13_ValidatedSetByMode ==
    /\ (Running /\ frame.validation_mode = "Changed") =>
           /\ \A k \in 1..Len(calls) :
                  calls[k].op = "validate" =>
                      /\ calls[k].phase = "bulk"
                      /\ calls[k].f \in EnabledNames
                      /\ EnabledTemplate(calls[k].f).needs_redeployment
           /\ \A f \in EnabledNames :
                  IF EnabledTemplate(f).needs_redeployment
                  THEN /\ Cardinality(CallsFor("validate", f)) <= 1
                       /\ ~Validating => Cardinality(CallsFor("validate", f)) = 1
                  ELSE CallsFor("validate", f) = {}
    /\ ((Running \/ frame.pc = "single") /\ frame.validation_mode = "Skip") =>
           NoValidateCall

\* C13 witness: mode Changed, one template validated and deployed, another
\* one deployed without a validate call.
C13_Witness ==
    /\ Running
    /\ frame.validation_mode = "Changed"
    /\ \E f \in EnabledNames, g \in EnabledNames :
           /\ CallsFor("validate", f) # {} /\ CallsFor("deploy", f) # {}
           /\ CallsFor("validate", g) = {} /\ CallsFor("deploy", g) # {}

\* the record carries the given outcome under key and a message that is
\* not empty under error
CarriesFailure(f, key, error) ==
    LET e == FileSettings(file_order, f)
    IN  /\ Get(e, key) = Some(FALSE)
        /\ Get(e, error) # None
        /\ Get(e, error) # Some("")

\* a call of the external tool made by the per-item deploy failed
FailedCall(item) == item.result = "failure" /\ item.calls # <<>>

\* C16: a template whose validate call in validate_all_templates failed,
\* timed out or threw has a record with a failed validation and a message;
\* a template whose validate or deploy call in the per-item deploy failed
\* or threw has, once the per-item deploy has returned, a record with a
\* failed deployment and a message.
C16_FailureIsRecorded ==
    /\ Running =>
           /\ \A k \in 1..Len(frame.validations) :
                  ~frame.validations[k].is_valid =>
                      CarriesFailure(frame.validations[k].f,
                                     "LastValidationSuccess", "LastValidationError")
           /\ \A l \in 1..Len(frame.items) :
                  FailedCall(frame.items[l]) =>
                      CarriesFailure(frame.enabled_templates[frame.items[l].i].name,
                                     "LastDeploymentSuccess", "LastDeploymentError")
    /\ (frame.pc = "single" /\ FailedCall(frame.item)) =>
           CarriesFailure(frame.item.name, "LastDeploymentSuccess", "LastDeploymentError")

\* C16 witness: the validation of one template failed in the validation
\* pass and the deploy call of another one, which had passed, failed.
C16_Witness ==
    /\ Running
    /\ \E k \in 1..Len(frame.validations) : ~frame.validations[k].is_valid
    /\ \E l \in 1..Len(frame.items) :
           /\ FailedCall(frame.items[l])
           /\ \E k \in 1..Len(frame.validations) :
                  /\ frame.validations[k].is_valid
                  /\ frame.validations[k].f = frame.enabled_templates[frame.items[l].i].name

----------------------------------------------------------------------------
(* Properties of the interactive loop (checked under SpecSession). *)

\* C15 as stated: a per-item deploy of an unchanged template that is not
\* preceded, in its own batch, by the answer A or L asks the operator: the
\* deploy of one template chosen at the menu always does, and so does a
\* batch until one of the two answers is given in it.
C15_StickyEndsWithBatch ==
    /\ (frame.pc = "single" /\ frame.item.unchanged) => frame.item.prompted
    /\ Running =>
           \A l \in 1..Len(frame.items) :
               (/\ frame.items[l].unchanged
                /\ Answered("A", l) = {}
                /\ Answered("L", l) = {}) => frame.items[l].prompted

Returned == {"success", "failure", "skipped"}

\* C17 as stated: every per-item deploy returns success, failure or
\* "skipped", in a batch and for one template chosen at the menu, whatever
\* the file system and the external tool do.
C17_NeverRaises ==
    /\ frame.pc = "single" => frame.item.result \in Returned
    /\ Running =>
           \A l \in 1..Len(frame.items) : frame.items[l].result \in Returned

\* C19: the loop has ended only after the choice Q or an interrupt.
C19_LoopEndsOnQuitOrInterrupt ==
    frame.pc = "ended" => frame.why \in {"quit", "interrupt"}

\* C19 witness: deploy_all_templates threw, the loop caught the exception
\* and is back at the menu with a choice still to be made.
C19_Witness ==
    /\ frame.pc = "handled"
    /\ frame.choice = "A"
    /\ frame.outcome = "raise"
    /\ steps < MaxChoices
    /\ LoopTop

----------------------------------------------------------------------------
(* Properties of the spinner (checked under SpecSpinner). *)

RunningWorkers == {k \in 1..Len(spinner.workers) : spinner.workers[k].state = "running"}

\* C18: when show_progress_spinner has returned a result or thrown the
\* exception of the operation, the worker it started has finished; every
\* outcome written to the history was written after the worker of its call
\* had finished and is the outcome of that worker; at most one worker is
\* running at any time.
C18_JoinedBeforeReturn ==
    /\ spinner.pc \in {"returned", "raised"} =>
           /\ ThreadDone(Worker)
           /\ (spinner.pc = "raised") = (Worker.outcome = "raise")
    /\ \A k \in 1..Len(spinner.writes) :
           /\ spinner.writes[k].worker = "finished"
           /\ spinner.writes[k].success = (spinner.writes[k].outcome = "ok")
    /\ Cardinality(RunningWorkers) <= 1

\* C18 witness: the validation ran while the spinner was drawn, passed, and
\* the deployment, started after it, has failed and been written down.
C18_Witness ==
    /\ spinner.pc = "over"
    /\ Len(spinner.workers) = 2
    /\ spinner.spins > 0
    /\ spinner.workers[1].outcome = "ok"
    /\ spinner.workers[2].outcome = "fail"
    /\ Len(spinner.writes) = 1
    /\ ~spinner.writes[1].success

----------------------------------------------------------------------------
(* Properties of the settings file (checked under SpecConfig). *)

\* absent, or not the text of a JSON object
NotAnObject(file) ==
    IF file.kind = "missing" \/ JsonLoad(file) = JSONDecodeError THEN TRUE
    ELSE JsonLoad(file).py # "dict"

\* C20 as stated: load_deployment_settings raises nothing, and returns the
\* default empty settings when the file is absent or is not the text of a
\* JSON object.
C20_LoadNeverRaises ==
    loaded.called =>
        /\ loaded.raised = ""
        /\ NotAnObject(loaded.file) => loaded.settings = DefaultSettings

\* the settings were loaded from a file that save_deployment_settings wrote
LoadedWhatWasSaved == loaded.called /\ loaded.file.kind = "json"

----------------------------------------------------------------------------
(* Properties of the validation pass (checked under SpecBatch). *)

ValidationKeys == {"LastValidationSuccess", "LastValidation", "LastValidationError"}

\* a record without what it says about the last validation
OutsideValidation(e) == [k \in DOMAIN e \ ValidationKeys |-> e[k]]

\* C21: every round of validate_all_templates, which calls
\* update_validation_history once, changes at most one record and in it only
\* the outcome, error and time of the validation; a record it creates is the
\* bare record of the validated file; no deploy call is made, so outcome,
\* error, time and content hash of the last deployment of every record are
\* what they were before.
C21_ValidationKeepsDeployments ==
    [][frame.pc = "validating" =>
          /\ Len(file_order') \in {Len(file_order), Len(file_order) + 1}
          /\ \A i \in 1..Len(file_order) :
                 /\ OutsideValidation(file_order'[i]) = OutsideValidation(file_order[i])
                 /\ DeploymentPart(file_order'[i]) = DeploymentPart(file_order[i])
          /\ Cardinality({i \in 1..Len(file_order) : file_order'[i] # file_order[i]})
                 + (Len(file_order') - Len(file_order)) <= 1
          /\ Len(file_order') > Len(file_order) =>
                 /\ OutsideValidation(file_order'[Len(file_order')]) =
                        BareEntry(frame.to_validate[frame.vi], TRUE)
                 /\ Matches(file_order, frame.to_validate[frame.vi]) = {}
          /\ \A k \in 1..Len(calls') : calls'[k].op # "deploy"]_vars

\* C21 witness: the validation pass has ended with a failure; it has created
\* the record of "c.bicep", which says nothing about a deployment, and has
\* written to the record of "b.bicep", which still shows its deployment.
C21_Witness ==
    /\ frame.pc = "validation_prompt"
    /\ Len(file_order) > Len(frame.start_order)
    /\ HasKey(FileSettings(file_order, "c.bicep"), "LastValidation")
    /\ DeploymentPart(FileSettings(file_order, "c.bicep")) = [k \in DeploymentKeys |-> None]
    /\ HasKey(FileSettings(file_order, "b.bicep"), "LastValidationError")
    /\ Get(FileSettings(file_order, "b.bicep"), "LastDeploymentSuccess") = Some(TRUE)

----------------------------------------------------------------------------
(* Properties of the registry calls (checked under Spec). *)

\* the names the persisted order lists
FileNames(fo) == {fo[i].FileName : i \in 1..Len(fo)}

\* the entries refresh_file_list has appended
Appended == SubSeq(file_order, Len(last.before) + 1, Len(file_order))

\* refresh_file_list keeps the entries it finds, in their order, and appends
\* one bare enabled entry for each file on disk whose name is not listed
AppendsUnlisted ==
    /\ Len(file_order) >= Len(last.before)
    /\ SubSeq(file_order, 1, Len(last.before)) = last.before
    /\ \A i \in 1..Len(Appended) : Appended[i] = BareEntry(Appended[i].FileName, TRUE)
    /\ FileNames(Appended) = DOMAIN disk \ FileNames(last.before)
    /\ Len(Appended) = Cardinality(FileNames(Appended))

----------------------------------------------------------------------------
(* Properties of the prompt about a prior failure (checked under SpecBatch). *)

\* the record of the template showed a failed deployment when the batch began
ShowsPriorFailure(i) == frame.enabled_templates[i].last_deployment_success = Some(FALSE)

\* the answers given when asked about the prior failure of item i
PriorAnswers(i) ==
    {frame.confirmations[k].answer :
        k \in {n \in 1..Len(frame.confirmations) : frame.confirmations[n].i = i}}

ItemsOf(i) == {l \in 1..Len(frame.items) : frame.items[l].i = i}

\* item i was passed over: no call for it in the deploy pass, no result, its
\* record as the batch found it or as the validation pass left it, and the
\* items after it dealt with when the batch has run to its end
PassedOver(i) ==
    LET f == frame.enabled_templates[i].name
    IN  /\ ItemsOf(i) = {}
        /\ \A k \in 1..Len(calls) : calls[k].f = f => calls[k].phase = "bulk"
        /\ \A k \in 1..Len(frame.results) : frame.results[k].i # i
        /\ DeploymentPart(FileSettings(file_order, f)) =
               DeploymentPart(FileSettings(frame.start_order, f))
        /\ CallsFor("validate", f) = {} =>
               FileSettings(file_order, f) = FileSettings(frame.start_order, f)
        /\ frame.i > i
        /\ (frame.pc = "done" /\ frame.halted = 0) =>
               \A j \in (i + 1)..Len(frame.enabled_templates) :
                   j \in frame.declined \/ ItemsOf(j) # {}

\* C23 as stated: in the deploy pass the operator is asked about every item
\* whose record shows a failed deployment; the per-item deploy runs for such
\* an item only after the answer Y; after the answer N the item is passed
\* over and the batch goes on.
C23_PriorFailureNeedsConfirmation ==
    (Running /\ frame.pc \in {"item", "deploy", "continue_prompt", "done"}) =>
        /\ \A i \in 1..Len(frame.enabled_templates) :
               (ShowsPriorFailure(i) /\ (i < frame.i \/ ItemsOf(i) # {})) =>
                   PriorAnswers(i) # {}
        /\ \A i \in 1..Len(frame.enabled_templates) :
               (ShowsPriorFailure(i) /\ ItemsOf(i) # {}) => PriorAnswers(i) = {"Y"}
        /\ \A i \in 1..Len(frame.enabled_templates) :
               "N" \in PriorAnswers(i) => PassedOver(i)

----------------------------------------------------------------------------
(* Properties of the per-item deploy (checked under SpecBatch). *)

\* what deploy_bicep_template puts in front of a message
MessagePrefixes ==
    {"", "Template validation failed: ", "Deployment failed: ",
     "Unexpected error during deployment: "}

\* the stored text s contains the message m
Contains(s, m) == \E p \in MessagePrefixes : s = p \o m

\* the per-item deploy of file f, whose validation failed, made no deploy
\* call and returned failure, and the record of f shows a failed deployment
\* with the message of the validation
StoppedAtValidation(item, f) ==
    /\ \A k \in 1..Len(item.calls) : item.calls[k].op # "deploy"
    /\ item.result = "failure"
    /\ Get(FileSettings(file_order, f), "LastDeploymentSuccess") = Some(FALSE)
    /\ HasKey(FileSettings(file_order, f), "LastDeploymentError")
    /\ Contains(FileSettings(file_order, f).LastDeploymentError, ValidationMessage)

\* C26: when the per-item deploy has validated a template and the validation
\* failed, no deploy call was made for the item, the result is failure, and
\* the record of the template shows a failed deployment whose error message
\* contains the message of the validation.  The per-item deploy validates
\* when one template is deployed from the menu; inside a batch the
\* validation pass has validated before.
C26_FailedValidationStopsDeploy ==
    (frame.pc = "single" /\ frame.item.validated = "fail") =>
        StoppedAtValidation(frame.item, frame.item.name)

\* C26 witness: a template deployed before is deployed alone, the operator
\* having said Y to deploying it unchanged; its validation fails and its
\* record, which showed a success, shows the failure.
C26_Witness ==
    /\ frame.pc = "single"
    /\ frame.item.validated = "fail"
    /\ frame.item.unchanged
    /\ frame.item.answer = "Y"
    /\ frame.item.calls = <<ValidateCall(frame.item.name)>>
    /\ FileSettings(file_order, frame.item.name).LastDeploymentError =
           "Template validation failed: validation error"

----------------------------------------------------------------------------
(* Properties of the unchanged policy (checked under SpecBatch). *)

\* the record shows a successful deployment of the content the file has
DeployedAsItIs(fo, f) ==
    /\ FileSettings(fo, f) # <<>>
    /\ Get(FileSettings(fo, f), "LastDeploymentSuccess") = Some(TRUE)
    /\ StoredHash(FileSettings(fo, f)) = GetCurrentFileHash(disk, f)

\* C28 as stated: a per-item deploy that took its template for unchanged
\* (asked the operator, applied the sticky choice or returned "skipped")
\* found a record of a successful deployment of the present content; the
\* deployment part of a record does not change in a batch before the item of
\* its template, so it is read from the order the batch started with.
C28_UnchangedMeansDeployed ==
    /\ Running =>
           \A l \in 1..Len(frame.items) :
               (\/ frame.items[l].unchanged
                \/ frame.items[l].prompted
                \/ frame.items[l].result = "skipped") =>
                   DeployedAsItIs(frame.start_order,
                                  frame.enabled_templates[frame.items[l].i].name)
    /\ (frame.pc = "single" /\ frame.item.result = "skipped") =>
           DeployedAsItIs(file_order, frame.item.name)

----------------------------------------------------------------------------
(* More properties of the registry calls (checked under Spec). *)

\* the registry calls that record no deployment
NoDeploymentCalls ==
    {"update_validation_history", "set_template_enabled", "reorder_templates",
     "refresh_file_list"}

\* C27 as stated: after update_validation_history, set_template_enabled,
\* reorder_templates or refresh_file_list, discovery reports for every file
\* the needs_redeployment it reported before the call.
C27_OnlyDeploymentsChangeStatus ==
    last.op \in NoDeploymentCalls =>
        \A f \in DOMAIN disk :
            Template(file_order, disk, f).needs_redeployment =
                Template(last.before, disk, f).needs_redeployment

\* C29 as stated: in every reachable state and for every file on disk,
\* test_template_modified answers what discovery reports as
\* needs_redeployment for that file.
C29_ModifiedAgreesWithDiscover ==
    \A f \in DOMAIN disk :
        TestTemplateModified(file_order, disk, f)
            = Template(file_order, disk, f).needs_redeployment

----------------------------------------------------------------------------
(* Properties of discovery over a run of registry calls (checked under     *)
(* Spec).                                                                  *)

\* what discovery reports as needs_redeployment for f
Discovers(fo, d, f) == Template(fo, d, f).needs_redeployment

\* the record of f shows a successful deployment and the hash taken then
SuccessRecorded(fo, f) ==
    /\ FileSettings(fo, f) # <<>>
    /\ Get(FileSettings(fo, f), "LastDeploymentSuccess") = Some(TRUE)
    /\ StoredHash(FileSettings(fo, f)) # NoHash

\* this step records a deployment of f
RecordsDeployment(f) ==
    last'.op = "update_deployment_history" /\ last'.f = f

\* right after a successful update_deployment_history for a readable file
\* discovery reports false for it
FalseOnceDeployed ==
    (/\ last.op = "update_deployment_history"
     /\ last.success
     /\ disk[last.f].readable) =>
        /\ SuccessRecorded(file_order, last.f)
        /\ ~Discovers(file_order, disk, last.f)

\* a step that records no deployment of the readable f and leaves its
\* content alone keeps a reported false
StaysFalse(f) ==
    (/\ SuccessRecorded(file_order, f)
     /\ disk[f].readable /\ disk'[f].readable
     /\ ~Discovers(file_order, disk, f)
     /\ disk'[f].content = disk[f].content
     /\ ~RecordsDeployment(f)) =>
        ~Discovers(file_order', disk', f)

\* a reported true for a deployed, readable f (its content was changed
\* after the deployment) stays until a successful deployment is recorded
StaysTrue(f) ==
    (/\ SuccessRecorded(file_order, f)
     /\ disk[f].readable /\ disk'[f].readable
     /\ Discovers(file_order, disk, f)
     /\ ~(RecordsDeployment(f) /\ last'.success)) =>
        Discovers(file_order', disk', f)

\* a step that records no deployment of the readable f leaves discovery
\* comparing the content of f with the content deployed
FollowsContent(f) ==
    (/\ SuccessRecorded(file_order, f)
     /\ disk[f].readable /\ disk'[f].readable
     /\ ~RecordsDeployment(f)) =>
        Discovers(file_order', disk', f) =
            (GetCurrentFileHash(disk', f) # StoredHash(FileSettings(file_order, f)))

\* C30 as stated: after a successful update_deployment_history for a
\* readable f discovery reports false while the content of f stays the
\* same, whatever registry call runs; once the content has changed it
\* reports true until the next successful deployment of f is recorded.
C30_FalseThenTrueUntilDeployed ==
    /\ []FalseOnceDeployed
    /\ [][\A f \in DOMAIN disk : StaysFalse(f) /\ StaysTrue(f)]_vars

\* C30, amended: after a successful update_deployment_history for a
\* readable f, and until the next deployment of f is recorded, discovery
\* reports false while the content of f is the content deployed and true
\* while it differs, whatever registry call runs; a change that is undone
\* brings false back without a deployment.
C30_FollowsDeployedContent ==
    /\ []FalseOnceDeployed
    /\ [][\A f \in DOMAIN disk : StaysFalse(f) /\ FollowsContent(f)]_vars

\* b.bicep, which starts without a deployment, was deployed, then edited:
\* discovery reports true
C30_Witness ==
    /\ last.op = "write_file"
    /\ last.f = "b.bicep"
    /\ disk["b.bicep"].readable
    /\ SuccessRecorded(file_order, "b.bicep")
    /\ Discovers(file_order, disk, "b.bicep")

====
